---- MODULE Spec2Model ----
(***************************************************************************)
(* Wisdom Vault backend (server/server.js, current revision, lines         *)
(* 638-1378): the POST /process-insight pipeline, its temp-file lifecycle  *)
(* and the pure helpers it calls.                                          *)
(*                                                                         *)
(* JavaScript values are tagged records; a string is a sequence of         *)
(* one-character strings, so that split/trim/slice/join are computed as    *)
(* the runtime computes them.                                              *)
(***************************************************************************)
EXTENDS Integers, Sequences, FiniteSets, TLC

VARIABLES
  pc,           \* per run: the await the handler is suspended at
  req,          \* per run: req.body
  tsSeconds,    \* per run: timestampSeconds (server.js:993)
  episode,      \* per run: result of searchListenNotes (kept as history)
  segment,      \* per run: result of extractTranscriptSegment (history)
  transcript,   \* per run: local `transcript` of the handler
  audioPath,    \* per run: local `audioPath` of the handler
  stamp,        \* per run: `timestamp` of extractAudioSnippet (Date.now())
  downloadStats,\* per run: fs.stat result for the download (kept as history)
  err,          \* per run: error caught by extractAudioSnippet's catch
  responses,    \* per run: the HTTP responses sent, in order
  trace,        \* per run: external calls, "failed" when a stage throws,
                \* "transcriptFetchFailed" when getEpisodeTranscript catches,
                \* and responses, in order (history)
  made,         \* per run: the files its subprocesses have opened: "full",
                \* "snippet" (outputs, created) and "input" (history)
  child,        \* per run: the path that the subprocess it started and that is
                \* still alive writes to, or null
  audit,        \* per run: state of the un-awaited logToSupabase promise
  fs,           \* the temp directory: path -> file
  now,          \* the value Date.now() last returned
  call,         \* a helper function applied on its own: arguments and result
  worker,       \* the extension's background service worker and its storage
  popup         \* the extension's popup page

vars == <<pc, req, tsSeconds, episode, segment, transcript, audioPath, stamp,
          downloadStats, err, responses, trace, made, child, audit, fs, now, call,
          worker, popup>>

(***************************************************************************)
(* Bounds                                                                  *)
(***************************************************************************)
MaxClock == 1

Runs == {"r1", "r2"}

(***************************************************************************)
(* JavaScript values                                                       *)
(***************************************************************************)
Undefined == [tag |-> "undefined"]
Null == [tag |-> "null"]
Str(s) == [tag |-> "string", chars |-> s]
Num(n) == [tag |-> "number", val |-> n]
Arr(a) == [tag |-> "array", items |-> a]
Obj == [tag |-> "object"]
True == [tag |-> "boolean", val |-> TRUE]

\* ToBoolean: undefined, null, 0 and '' are falsy
Truthy(v) ==
  CASE v.tag = "undefined" -> FALSE
    [] v.tag = "null" -> FALSE
    [] v.tag = "number" -> v.val # 0
    [] v.tag = "boolean" -> v.val
    [] v.tag = "string" -> v.chars # <<>>
    [] OTHER -> TRUE

\* a || b
Or(a, b) == IF Truthy(a) THEN a ELSE b

\* { ...a, ...b }: the keys of b win
spread(a, b) ==
  [k \in DOMAIN a \cup DOMAIN b |-> IF k \in DOMAIN b THEN b[k] ELSE a[k]]

Max(a, b) == IF a >= b THEN a ELSE b
Min(a, b) == IF a <= b THEN a ELSE b

(***************************************************************************)
(* String and array built-ins                                              *)
(***************************************************************************)
\* \s and the characters String.prototype.trim removes: WhiteSpace and
\* LineTerminator of ECMAScript (tab, line feed, vertical tab U+000B, form
\* feed, carriage return, space, no-break space, the Unicode space
\* separators, line and paragraph separator, byte order mark).  A character
\* outside the escapes of TLA+ is named by its code point.
IsWhitespace(c) ==
  c \in {"\t", "\n", "U+000B", "\f", "\r", " ", "U+00A0", "U+1680",
         "U+2000", "U+2001", "U+2002", "U+2003", "U+2004", "U+2005",
         "U+2006", "U+2007", "U+2008", "U+2009", "U+200A", "U+2028",
         "U+2029", "U+202F", "U+205F", "U+3000", "U+FEFF"}

\* String.prototype.split with a one-character separator: the pieces between
\* the occurrences of sep, in order (cut first at an occurrence nearest the
\* middle, then each side in the same way)
RECURSIVE split(_, _)
split(s, sep) ==
  LET at == {i \in 1..Len(s) : s[i] = sep}
  IN IF at = {} THEN <<s>>
     ELSE LET mid == (Len(s) + 1) \div 2
              dist(i) == IF i >= mid THEN i - mid ELSE mid - i
              i == CHOOSE k \in at : \A j \in at : dist(k) <= dist(j)
          IN split(SubSeq(s, 1, i - 1), sep)
               \o split(SubSeq(s, i + 1, Len(s)), sep)

\* Array.prototype.join
RECURSIVE join(_, _)
join(a, sep) ==
  IF a = <<>> THEN <<>>
  ELSE IF Len(a) = 1 THEN a[1]
  ELSE LET h == Len(a) \div 2
       IN join(SubSeq(a, 1, h), sep) \o sep
            \o join(SubSeq(a, h + 1, Len(a)), sep)

\* variant: the end index is ignored
sliceToEnd(a, start, end) ==
  LET n == Len(a)
      k == IF start < 0 THEN Max(n + start, 0) ELSE Min(start, n)
  IN SubSeq(a, k + 1, n)

\* Array.prototype.slice(start, end), negative indices counted from the end
slice(a, start, end) ==
  LET n == Len(a)
      k == IF start < 0 THEN Max(n + start, 0) ELSE Min(start, n)
      final == IF end < 0 THEN Max(n + end, 0) ELSE Min(end, n)
  IN SubSeq(a, k + 1, final)

\* String.prototype.trim
RECURSIVE trimStart(_)
trimStart(s) ==
  IF s # <<>> /\ IsWhitespace(Head(s)) THEN trimStart(Tail(s)) ELSE s

RECURSIVE trimEnd(_)
trimEnd(s) ==
  IF s # <<>> /\ IsWhitespace(s[Len(s)])
  THEN trimEnd(SubSeq(s, 1, Len(s) - 1)) ELSE s

trim(s) == trimEnd(trimStart(s))

\* String.prototype.toLowerCase.  A string is a sequence of UTF-16 code
\* units; a code unit is written as the character itself where ASCII has it
\* printable and a TLA+ string can hold it, as "\t", "\n", "\f", "\r" for
\* those controls, and as "U+XXXX" (four hexadecimal digits) otherwise.
\* Printable lists the code units 32..126 in order.
Printable ==
  <<" ", "!", "\"", "#", "$", "%", "&", "U+0027", "(", ")", "*", "+", ",",
    "-", ".", "/", "0", "1", "2", "3", "4", "5", "6", "7", "8", "9", ":",
    ";", "<", "=", ">", "?", "@", "A", "B", "C", "D", "E", "F", "G", "H",
    "I", "J", "K", "L", "M", "N", "O", "P", "Q", "R", "S", "T", "U", "V",
    "W", "X", "Y", "Z", "[", "\\", "]", "^", "_", "U+0060", "a", "b", "c",
    "d", "e", "f", "g", "h", "i", "j", "k", "l", "m", "n", "o", "p", "q",
    "r", "s", "t", "u", "v", "w", "x", "y", "z", "{", "|", "}", "~">>

\* The simple lower-case mappings of the Unicode character database
\* (version 17) outside ASCII: <<first, last, step, delta>> maps the code
\* points first, first + step, ..., last to themselves plus delta.
LowerRuns ==
  <<<<192, 214, 1, 32>>, <<216, 222, 1, 32>>, <<256, 302, 2, 1>>,
    <<306, 310, 2, 1>>, <<313, 327, 2, 1>>, <<330, 374, 2, 1>>,
    <<376, 376, 1, -121>>, <<377, 381, 2, 1>>, <<385, 385, 1, 210>>,
    <<386, 388, 2, 1>>, <<390, 390, 1, 206>>, <<391, 391, 1, 1>>,
    <<393, 394, 1, 205>>, <<395, 395, 1, 1>>, <<398, 398, 1, 79>>,
    <<399, 399, 1, 202>>, <<400, 400, 1, 203>>, <<401, 401, 1, 1>>,
    <<403, 403, 1, 205>>, <<404, 404, 1, 207>>, <<406, 406, 1, 211>>,
    <<407, 407, 1, 209>>, <<408, 408, 1, 1>>, <<412, 412, 1, 211>>,
    <<413, 413, 1, 213>>, <<415, 415, 1, 214>>, <<416, 420, 2, 1>>,
    <<422, 422, 1, 218>>, <<423, 423, 1, 1>>, <<425, 425, 1, 218>>,
    <<428, 428, 1, 1>>, <<430, 430, 1, 218>>, <<431, 431, 1, 1>>,
    <<433, 434, 1, 217>>, <<435, 437, 2, 1>>, <<439, 439, 1, 219>>,
    <<440, 440, 1, 1>>, <<444, 444, 1, 1>>, <<452, 452, 1, 2>>,
    <<453, 453, 1, 1>>, <<455, 455, 1, 2>>, <<456, 456, 1, 1>>,
    <<458, 458, 1, 2>>, <<459, 475, 2, 1>>, <<478, 494, 2, 1>>,
    <<497, 497, 1, 2>>, <<498, 500, 2, 1>>, <<502, 502, 1, -97>>,
    <<503, 503, 1, -56>>, <<504, 542, 2, 1>>, <<544, 544, 1, -130>>,
    <<546, 562, 2, 1>>, <<570, 570, 1, 10795>>, <<571, 571, 1, 1>>,
    <<573, 573, 1, -163>>, <<574, 574, 1, 10792>>, <<577, 577, 1, 1>>,
    <<579, 579, 1, -195>>, <<580, 580, 1, 69>>, <<581, 581, 1, 71>>,
    <<582, 590, 2, 1>>, <<880, 882, 2, 1>>, <<886, 886, 1, 1>>,
    <<895, 895, 1, 116>>, <<902, 902, 1, 38>>, <<904, 906, 1, 37>>,
    <<908, 908, 1, 64>>, <<910, 911, 1, 63>>, <<913, 929, 1, 32>>,
    <<931, 939, 1, 32>>, <<975, 975, 1, 8>>, <<984, 1006, 2, 1>>,
    <<1012, 1012, 1, -60>>, <<1015, 1015, 1, 1>>, <<1017, 1017, 1, -7>>,
    <<1018, 1018, 1, 1>>, <<1021, 1023, 1, -130>>, <<1024, 1039, 1, 80>>,
    <<1040, 1071, 1, 32>>, <<1120, 1152, 2, 1>>, <<1162, 1214, 2, 1>>,
    <<1216, 1216, 1, 15>>, <<1217, 1229, 2, 1>>, <<1232, 1326, 2, 1>>,
    <<1329, 1366, 1, 48>>, <<4256, 4293, 1, 7264>>,
    <<4295, 4295, 1, 7264>>, <<4301, 4301, 1, 7264>>,
    <<5024, 5103, 1, 38864>>, <<5104, 5109, 1, 8>>, <<7305, 7305, 1, 1>>,
    <<7312, 7354, 1, -3008>>, <<7357, 7359, 1, -3008>>,
    <<7680, 7828, 2, 1>>, <<7838, 7838, 1, -7615>>, <<7840, 7934, 2, 1>>,
    <<7944, 7951, 1, -8>>, <<7960, 7965, 1, -8>>, <<7976, 7983, 1, -8>>,
    <<7992, 7999, 1, -8>>, <<8008, 8013, 1, -8>>, <<8025, 8031, 2, -8>>,
    <<8040, 8047, 1, -8>>, <<8072, 8079, 1, -8>>, <<8088, 8095, 1, -8>>,
    <<8104, 8111, 1, -8>>, <<8120, 8121, 1, -8>>, <<8122, 8123, 1, -74>>,
    <<8124, 8124, 1, -9>>, <<8136, 8139, 1, -86>>, <<8140, 8140, 1, -9>>,
    <<8152, 8153, 1, -8>>, <<8154, 8155, 1, -100>>, <<8168, 8169, 1, -8>>,
    <<8170, 8171, 1, -112>>, <<8172, 8172, 1, -7>>,
    <<8184, 8185, 1, -128>>, <<8186, 8187, 1, -126>>,
    <<8188, 8188, 1, -9>>, <<8486, 8486, 1, -7517>>,
    <<8490, 8490, 1, -8383>>, <<8491, 8491, 1, -8262>>,
    <<8498, 8498, 1, 28>>, <<8544, 8559, 1, 16>>, <<8579, 8579, 1, 1>>,
    <<9398, 9423, 1, 26>>, <<11264, 11311, 1, 48>>, <<11360, 11360, 1, 1>>,
    <<11362, 11362, 1, -10743>>, <<11363, 11363, 1, -3814>>,
    <<11364, 11364, 1, -10727>>, <<11367, 11371, 2, 1>>,
    <<11373, 11373, 1, -10780>>, <<11374, 11374, 1, -10749>>,
    <<11375, 11375, 1, -10783>>, <<11376, 11376, 1, -10782>>,
    <<11378, 11378, 1, 1>>, <<11381, 11381, 1, 1>>,
    <<11390, 11391, 1, -10815>>, <<11392, 11490, 2, 1>>,
    <<11499, 11501, 2, 1>>, <<11506, 11506, 1, 1>>, <<42560, 42604, 2, 1>>,
    <<42624, 42650, 2, 1>>, <<42786, 42798, 2, 1>>, <<42802, 42862, 2, 1>>,
    <<42873, 42875, 2, 1>>, <<42877, 42877, 1, -35332>>,
    <<42878, 42886, 2, 1>>, <<42891, 42891, 1, 1>>,
    <<42893, 42893, 1, -42280>>, <<42896, 42898, 2, 1>>,
    <<42902, 42920, 2, 1>>, <<42922, 42922, 1, -42308>>,
    <<42923, 42923, 1, -42319>>, <<42924, 42924, 1, -42315>>,
    <<42925, 42925, 1, -42305>>, <<42926, 42926, 1, -42308>>,
    <<42928, 42928, 1, -42258>>, <<42929, 42929, 1, -42282>>,
    <<42930, 42930, 1, -42261>>, <<42931, 42931, 1, 928>>,
    <<42932, 42946, 2, 1>>, <<42948, 42948, 1, -48>>,
    <<42949, 42949, 1, -42307>>, <<42950, 42950, 1, -35384>>,
    <<42951, 42953, 2, 1>>, <<42955, 42955, 1, -42343>>,
    <<42956, 42970, 2, 1>>, <<42972, 42972, 1, -42561>>,
    <<42997, 42997, 1, 1>>, <<65313, 65338, 1, 32>>,
    <<66560, 66599, 1, 40>>, <<66736, 66771, 1, 40>>,
    <<66928, 66938, 1, 39>>, <<66940, 66954, 1, 39>>,
    <<66956, 66962, 1, 39>>, <<66964, 66965, 1, 39>>,
    <<68736, 68786, 1, 64>>, <<68944, 68965, 1, 32>>,
    <<71840, 71871, 1, 32>>, <<93760, 93791, 1, 32>>,
    <<93856, 93880, 1, 27>>, <<125184, 125217, 1, 34>>>>

\* The code points with the property Cased, as ranges <<first, last>>.
CasedRuns ==
  <<<<65, 90>>, <<97, 122>>, <<170, 170>>, <<181, 181>>, <<186, 186>>,
    <<192, 214>>, <<216, 246>>, <<248, 442>>, <<444, 447>>, <<452, 659>>,
    <<662, 696>>, <<704, 705>>, <<736, 740>>, <<837, 837>>, <<880, 883>>,
    <<886, 887>>, <<890, 893>>, <<895, 895>>, <<902, 902>>, <<904, 906>>,
    <<908, 908>>, <<910, 929>>, <<931, 1013>>, <<1015, 1153>>,
    <<1162, 1327>>, <<1329, 1366>>, <<1376, 1416>>, <<4256, 4293>>,
    <<4295, 4295>>, <<4301, 4301>>, <<4304, 4346>>, <<4348, 4351>>,
    <<5024, 5109>>, <<5112, 5117>>, <<7296, 7306>>, <<7312, 7354>>,
    <<7357, 7359>>, <<7424, 7615>>, <<7680, 7957>>, <<7960, 7965>>,
    <<7968, 8005>>, <<8008, 8013>>, <<8016, 8023>>, <<8025, 8025>>,
    <<8027, 8027>>, <<8029, 8029>>, <<8031, 8061>>, <<8064, 8116>>,
    <<8118, 8124>>, <<8126, 8126>>, <<8130, 8132>>, <<8134, 8140>>,
    <<8144, 8147>>, <<8150, 8155>>, <<8160, 8172>>, <<8178, 8180>>,
    <<8182, 8188>>, <<8305, 8305>>, <<8319, 8319>>, <<8336, 8348>>,
    <<8450, 8450>>, <<8455, 8455>>, <<8458, 8467>>, <<8469, 8469>>,
    <<8473, 8477>>, <<8484, 8484>>, <<8486, 8486>>, <<8488, 8488>>,
    <<8490, 8493>>, <<8495, 8500>>, <<8505, 8505>>, <<8508, 8511>>,
    <<8517, 8521>>, <<8526, 8526>>, <<8544, 8575>>, <<8579, 8580>>,
    <<9398, 9449>>, <<11264, 11492>>, <<11499, 11502>>, <<11506, 11507>>,
    <<11520, 11557>>, <<11559, 11559>>, <<11565, 11565>>, <<42560, 42605>>,
    <<42624, 42653>>, <<42786, 42887>>, <<42891, 42894>>, <<42896, 42972>>,
    <<42993, 42998>>, <<43000, 43002>>, <<43824, 43866>>, <<43868, 43881>>,
    <<43888, 43967>>, <<64256, 64262>>, <<64275, 64279>>, <<65313, 65338>>,
    <<65345, 65370>>, <<66560, 66639>>, <<66736, 66771>>, <<66776, 66811>>,
    <<66928, 66938>>, <<66940, 66954>>, <<66956, 66962>>, <<66964, 66965>>,
    <<66967, 66977>>, <<66979, 66993>>, <<66995, 67001>>, <<67003, 67004>>,
    <<67456, 67456>>, <<67459, 67461>>, <<67463, 67504>>, <<67506, 67514>>,
    <<68736, 68786>>, <<68800, 68850>>, <<68944, 68965>>, <<68976, 68997>>,
    <<71840, 71903>>, <<93760, 93823>>, <<93856, 93880>>, <<93883, 93907>>,
    <<119808, 119892>>, <<119894, 119964>>, <<119966, 119967>>,
    <<119970, 119970>>, <<119973, 119974>>, <<119977, 119980>>,
    <<119982, 119993>>, <<119995, 119995>>, <<119997, 120003>>,
    <<120005, 120069>>, <<120071, 120074>>, <<120077, 120084>>,
    <<120086, 120092>>, <<120094, 120121>>, <<120123, 120126>>,
    <<120128, 120132>>, <<120134, 120134>>, <<120138, 120144>>,
    <<120146, 120485>>, <<120488, 120512>>, <<120514, 120538>>,
    <<120540, 120570>>, <<120572, 120596>>, <<120598, 120628>>,
    <<120630, 120654>>, <<120656, 120686>>, <<120688, 120712>>,
    <<120714, 120744>>, <<120746, 120770>>, <<120772, 120779>>,
    <<122624, 122633>>, <<122635, 122654>>, <<122661, 122666>>,
    <<122928, 122989>>, <<125184, 125251>>, <<127280, 127305>>,
    <<127312, 127337>>, <<127344, 127369>>>>

\* The code points with the property Case_Ignorable, as ranges.
CaseIgnorableRuns ==
  <<<<39, 39>>, <<46, 46>>, <<58, 58>>, <<94, 94>>, <<96, 96>>,
    <<168, 168>>, <<173, 173>>, <<175, 175>>, <<180, 180>>, <<183, 184>>,
    <<688, 879>>, <<884, 885>>, <<890, 890>>, <<900, 901>>, <<903, 903>>,
    <<1155, 1161>>, <<1369, 1369>>, <<1375, 1375>>, <<1425, 1469>>,
    <<1471, 1471>>, <<1473, 1474>>, <<1476, 1477>>, <<1479, 1479>>,
    <<1524, 1524>>, <<1536, 1541>>, <<1552, 1562>>, <<1564, 1564>>,
    <<1600, 1600>>, <<1611, 1631>>, <<1648, 1648>>, <<1750, 1757>>,
    <<1759, 1768>>, <<1770, 1773>>, <<1807, 1807>>, <<1809, 1809>>,
    <<1840, 1866>>, <<1958, 1968>>, <<2027, 2037>>, <<2042, 2042>>,
    <<2045, 2045>>, <<2070, 2093>>, <<2137, 2139>>, <<2184, 2184>>,
    <<2192, 2193>>, <<2199, 2207>>, <<2249, 2306>>, <<2362, 2362>>,
    <<2364, 2364>>, <<2369, 2376>>, <<2381, 2381>>, <<2385, 2391>>,
    <<2402, 2403>>, <<2417, 2417>>, <<2433, 2433>>, <<2492, 2492>>,
    <<2497, 2500>>, <<2509, 2509>>, <<2530, 2531>>, <<2558, 2558>>,
    <<2561, 2562>>, <<2620, 2620>>, <<2625, 2626>>, <<2631, 2632>>,
    <<2635, 2637>>, <<2641, 2641>>, <<2672, 2673>>, <<2677, 2677>>,
    <<2689, 2690>>, <<2748, 2748>>, <<2753, 2757>>, <<2759, 2760>>,
    <<2765, 2765>>, <<2786, 2787>>, <<2810, 2815>>, <<2817, 2817>>,
    <<2876, 2876>>, <<2879, 2879>>, <<2881, 2884>>, <<2893, 2893>>,
    <<2901, 2902>>, <<2914, 2915>>, <<2946, 2946>>, <<3008, 3008>>,
    <<3021, 3021>>, <<3072, 3072>>, <<3076, 3076>>, <<3132, 3132>>,
    <<3134, 3136>>, <<3142, 3144>>, <<3146, 3149>>, <<3157, 3158>>,
    <<3170, 3171>>, <<3201, 3201>>, <<3260, 3260>>, <<3263, 3263>>,
    <<3270, 3270>>, <<3276, 3277>>, <<3298, 3299>>, <<3328, 3329>>,
    <<3387, 3388>>, <<3393, 3396>>, <<3405, 3405>>, <<3426, 3427>>,
    <<3457, 3457>>, <<3530, 3530>>, <<3538, 3540>>, <<3542, 3542>>,
    <<3633, 3633>>, <<3636, 3642>>, <<3654, 3662>>, <<3761, 3761>>,
    <<3764, 3772>>, <<3782, 3782>>, <<3784, 3790>>, <<3864, 3865>>,
    <<3893, 3893>>, <<3895, 3895>>, <<3897, 3897>>, <<3953, 3966>>,
    <<3968, 3972>>, <<3974, 3975>>, <<3981, 3991>>, <<3993, 4028>>,
    <<4038, 4038>>, <<4141, 4144>>, <<4146, 4151>>, <<4153, 4154>>,
    <<4157, 4158>>, <<4184, 4185>>, <<4190, 4192>>, <<4209, 4212>>,
    <<4226, 4226>>, <<4229, 4230>>, <<4237, 4237>>, <<4253, 4253>>,
    <<4348, 4348>>, <<4957, 4959>>, <<5906, 5908>>, <<5938, 5939>>,
    <<5970, 5971>>, <<6002, 6003>>, <<6068, 6069>>, <<6071, 6077>>,
    <<6086, 6086>>, <<6089, 6099>>, <<6103, 6103>>, <<6109, 6109>>,
    <<6155, 6159>>, <<6211, 6211>>, <<6277, 6278>>, <<6313, 6313>>,
    <<6432, 6434>>, <<6439, 6440>>, <<6450, 6450>>, <<6457, 6459>>,
    <<6679, 6680>>, <<6683, 6683>>, <<6742, 6742>>, <<6744, 6750>>,
    <<6752, 6752>>, <<6754, 6754>>, <<6757, 6764>>, <<6771, 6780>>,
    <<6783, 6783>>, <<6823, 6823>>, <<6832, 6877>>, <<6880, 6891>>,
    <<6912, 6915>>, <<6964, 6964>>, <<6966, 6970>>, <<6972, 6972>>,
    <<6978, 6978>>, <<7019, 7027>>, <<7040, 7041>>, <<7074, 7077>>,
    <<7080, 7081>>, <<7083, 7085>>, <<7142, 7142>>, <<7144, 7145>>,
    <<7149, 7149>>, <<7151, 7153>>, <<7212, 7219>>, <<7222, 7223>>,
    <<7288, 7293>>, <<7376, 7378>>, <<7380, 7392>>, <<7394, 7400>>,
    <<7405, 7405>>, <<7412, 7412>>, <<7416, 7417>>, <<7468, 7530>>,
    <<7544, 7544>>, <<7579, 7679>>, <<8125, 8125>>, <<8127, 8129>>,
    <<8141, 8143>>, <<8157, 8159>>, <<8173, 8175>>, <<8189, 8190>>,
    <<8203, 8207>>, <<8216, 8217>>, <<8228, 8228>>, <<8231, 8231>>,
    <<8234, 8238>>, <<8288, 8292>>, <<8294, 8303>>, <<8305, 8305>>,
    <<8319, 8319>>, <<8336, 8348>>, <<8400, 8432>>, <<11388, 11389>>,
    <<11503, 11505>>, <<11631, 11631>>, <<11647, 11647>>, <<11744, 11775>>,
    <<11823, 11823>>, <<12293, 12293>>, <<12330, 12333>>, <<12337, 12341>>,
    <<12347, 12347>>, <<12441, 12446>>, <<12540, 12542>>, <<40981, 40981>>,
    <<42232, 42237>>, <<42508, 42508>>, <<42607, 42610>>, <<42612, 42621>>,
    <<42623, 42623>>, <<42652, 42655>>, <<42736, 42737>>, <<42752, 42785>>,
    <<42864, 42864>>, <<42888, 42890>>, <<42993, 42996>>, <<43000, 43001>>,
    <<43010, 43010>>, <<43014, 43014>>, <<43019, 43019>>, <<43045, 43046>>,
    <<43052, 43052>>, <<43204, 43205>>, <<43232, 43249>>, <<43263, 43263>>,
    <<43302, 43309>>, <<43335, 43345>>, <<43392, 43394>>, <<43443, 43443>>,
    <<43446, 43449>>, <<43452, 43453>>, <<43471, 43471>>, <<43493, 43494>>,
    <<43561, 43566>>, <<43569, 43570>>, <<43573, 43574>>, <<43587, 43587>>,
    <<43596, 43596>>, <<43632, 43632>>, <<43644, 43644>>, <<43696, 43696>>,
    <<43698, 43700>>, <<43703, 43704>>, <<43710, 43711>>, <<43713, 43713>>,
    <<43741, 43741>>, <<43756, 43757>>, <<43763, 43764>>, <<43766, 43766>>,
    <<43867, 43871>>, <<43881, 43883>>, <<44005, 44005>>, <<44008, 44008>>,
    <<44013, 44013>>, <<64286, 64286>>, <<64434, 64450>>, <<65024, 65039>>,
    <<65043, 65043>>, <<65056, 65071>>, <<65106, 65106>>, <<65109, 65109>>,
    <<65279, 65279>>, <<65287, 65287>>, <<65294, 65294>>, <<65306, 65306>>,
    <<65342, 65342>>, <<65344, 65344>>, <<65392, 65392>>, <<65438, 65439>>,
    <<65507, 65507>>, <<65529, 65531>>, <<66045, 66045>>, <<66272, 66272>>,
    <<66422, 66426>>, <<67456, 67461>>, <<67463, 67504>>, <<67506, 67514>>,
    <<68097, 68099>>, <<68101, 68102>>, <<68108, 68111>>, <<68152, 68154>>,
    <<68159, 68159>>, <<68325, 68326>>, <<68900, 68903>>, <<68942, 68942>>,
    <<68969, 68973>>, <<68975, 68975>>, <<69291, 69292>>, <<69317, 69317>>,
    <<69370, 69375>>, <<69446, 69456>>, <<69506, 69509>>, <<69633, 69633>>,
    <<69688, 69702>>, <<69744, 69744>>, <<69747, 69748>>, <<69759, 69761>>,
    <<69811, 69814>>, <<69817, 69818>>, <<69821, 69821>>, <<69826, 69826>>,
    <<69837, 69837>>, <<69888, 69890>>, <<69927, 69931>>, <<69933, 69940>>,
    <<70003, 70003>>, <<70016, 70017>>, <<70070, 70078>>, <<70089, 70092>>,
    <<70095, 70095>>, <<70191, 70193>>, <<70196, 70196>>, <<70198, 70199>>,
    <<70206, 70206>>, <<70209, 70209>>, <<70367, 70367>>, <<70371, 70378>>,
    <<70400, 70401>>, <<70459, 70460>>, <<70464, 70464>>, <<70502, 70508>>,
    <<70512, 70516>>, <<70587, 70592>>, <<70606, 70606>>, <<70608, 70608>>,
    <<70610, 70610>>, <<70625, 70626>>, <<70712, 70719>>, <<70722, 70724>>,
    <<70726, 70726>>, <<70750, 70750>>, <<70835, 70840>>, <<70842, 70842>>,
    <<70847, 70848>>, <<70850, 70851>>, <<71090, 71093>>, <<71100, 71101>>,
    <<71103, 71104>>, <<71132, 71133>>, <<71219, 71226>>, <<71229, 71229>>,
    <<71231, 71232>>, <<71339, 71339>>, <<71341, 71341>>, <<71344, 71349>>,
    <<71351, 71351>>, <<71453, 71453>>, <<71455, 71455>>, <<71458, 71461>>,
    <<71463, 71467>>, <<71727, 71735>>, <<71737, 71738>>, <<71995, 71996>>,
    <<71998, 71998>>, <<72003, 72003>>, <<72148, 72151>>, <<72154, 72155>>,
    <<72160, 72160>>, <<72193, 72202>>, <<72243, 72248>>, <<72251, 72254>>,
    <<72263, 72263>>, <<72273, 72278>>, <<72281, 72283>>, <<72330, 72342>>,
    <<72344, 72345>>, <<72544, 72544>>, <<72546, 72548>>, <<72550, 72550>>,
    <<72752, 72758>>, <<72760, 72765>>, <<72767, 72767>>, <<72850, 72871>>,
    <<72874, 72880>>, <<72882, 72883>>, <<72885, 72886>>, <<73009, 73014>>,
    <<73018, 73018>>, <<73020, 73021>>, <<73023, 73029>>, <<73031, 73031>>,
    <<73104, 73105>>, <<73109, 73109>>, <<73111, 73111>>, <<73177, 73177>>,
    <<73459, 73460>>, <<73472, 73473>>, <<73526, 73530>>, <<73536, 73536>>,
    <<73538, 73538>>, <<73562, 73562>>, <<78896, 78912>>, <<78919, 78933>>,
    <<90398, 90409>>, <<90413, 90415>>, <<92912, 92916>>, <<92976, 92982>>,
    <<92992, 92995>>, <<93504, 93506>>, <<93547, 93548>>, <<94031, 94031>>,
    <<94095, 94111>>, <<94176, 94177>>, <<94179, 94180>>, <<94194, 94195>>,
    <<110576, 110579>>, <<110581, 110587>>, <<110589, 110590>>,
    <<113821, 113822>>, <<113824, 113827>>, <<118528, 118573>>,
    <<118576, 118598>>, <<119143, 119145>>, <<119155, 119170>>,
    <<119173, 119179>>, <<119210, 119213>>, <<119362, 119364>>,
    <<121344, 121398>>, <<121403, 121452>>, <<121461, 121461>>,
    <<121476, 121476>>, <<121499, 121503>>, <<121505, 121519>>,
    <<122880, 122886>>, <<122888, 122904>>, <<122907, 122913>>,
    <<122915, 122916>>, <<122918, 122922>>, <<122928, 122989>>,
    <<123023, 123023>>, <<123184, 123197>>, <<123566, 123566>>,
    <<123628, 123631>>, <<124139, 124143>>, <<124398, 124399>>,
    <<124643, 124643>>, <<124646, 124646>>, <<124654, 124655>>,
    <<124661, 124661>>, <<124671, 124671>>, <<125136, 125142>>,
    <<125252, 125259>>, <<127995, 127999>>, <<917505, 917505>>,
    <<917536, 917631>>, <<917760, 917999>>>>

\* s.toLowerCase(): the code units are read as code points (a lead and a
\* trail surrogate in a row make one code point beyond U+FFFF), each code
\* point is lowered, and the result is written as code units again.
\* U+0130 lowers to i and U+0307; the capital sigma U+03A3 lowers to the
\* final sigma U+03C2 when a cased letter stands before it and none after
\* it, case-ignorable code points being skipped on both sides, and to
\* U+03C3 otherwise; every other code point takes its simple mapping.
toLowerCase(s) ==
  LET hex == <<"0", "1", "2", "3", "4", "5", "6", "7", "8", "9", "A", "B",
               "C", "D", "E", "F">>
      \* the number of a code unit and the code unit of a number
      number(d) == 4096 * d[3] + 256 * d[4] + 16 * d[5] + d[6]
      codeUnit(c) ==
        IF Len(c) = 6
        THEN number([i \in 3..6 |->
                      (CHOOSE d \in 1..16 : hex[d] = SubSeq(c, i, i)) - 1])
        ELSE IF c = "\t" THEN 9
        ELSE IF c = "\n" THEN 10
        ELSE IF c = "\f" THEN 12
        ELSE IF c = "\r" THEN 13
        ELSE 31 + (CHOOSE i \in 1..95 : Printable[i] = c)
      named(d) == "U+" \o hex[d[1] + 1] \o hex[d[2] + 1] \o hex[d[3] + 1]
                       \o hex[d[4] + 1]
      charOf(n) ==
        IF n \in 32..126 THEN Printable[n - 31]
        ELSE IF n = 9 THEN "\t"
        ELSE IF n = 10 THEN "\n"
        ELSE IF n = 12 THEN "\f"
        ELSE IF n = 13 THEN "\r"
        ELSE named(<<n \div 4096, (n \div 256) % 16, (n \div 16) % 16,
                     n % 16>>)
      \* the code points of the code units u, from u[i] on
      RECURSIVE codePoints(_, _)
      codePoints(u, i) ==
        IF i > Len(u) THEN <<>>
        ELSE IF /\ i < Len(u)
                /\ u[i] \in 55296..56319
                /\ u[i + 1] \in 56320..57343
        THEN <<65536 + 1024 * (u[i] - 55296) + (u[i + 1] - 56320)>>
             \o codePoints(u, i + 2)
        ELSE <<u[i]>> \o codePoints(u, i + 1)
      \* the code units of the code points p, from p[k] on
      RECURSIVE codeUnits(_, _)
      codeUnits(p, k) ==
        IF k > Len(p) THEN <<>>
        ELSE (IF p[k] < 65536 THEN <<p[k]>>
              ELSE <<55296 + ((p[k] - 65536) \div 1024),
                     56320 + ((p[k] - 65536) % 1024)>>)
             \o codeUnits(p, k + 1)
      within(cp, ranges) ==
        \E k \in 1..Len(ranges) : ranges[k][1] <= cp /\ cp <= ranges[k][2]
      mapped(cp, r) ==
        r[1] <= cp /\ cp <= r[2] /\ ((cp - r[1]) % r[3]) = 0
      delta(cp, runs) ==
        IF \E k \in 1..Len(runs) : mapped(cp, runs[k])
        THEN runs[CHOOSE k \in 1..Len(runs) : mapped(cp, runs[k])][4]
        ELSE 0
      toLower(cp) ==
        IF cp < 128 THEN (IF cp \in 65..90 THEN cp + 32 ELSE cp)
        ELSE cp + delta(cp, LowerRuns)
      \* what the lowering needs to know of each code point of p
      properties(p) ==
        [k \in 1..Len(p) |-> [cased |-> within(p[k], CasedRuns),
                              caseIgnorable |-> within(p[k], CaseIgnorableRuns),
                              lower |-> toLower(p[k])]]
      \* a cased letter comes next from c[k] on in direction dir,
      \* case-ignorable code points skipped
      RECURSIVE casedLetterNext(_, _, _)
      casedLetterNext(c, k, dir) ==
        IF k \notin 1..Len(c) THEN FALSE
        ELSE IF c[k].caseIgnorable THEN casedLetterNext(c, k + dir, dir)
        ELSE c[k].cased
      RECURSIVE lowered(_, _, _)
      lowered(p, c, k) ==
        IF k > Len(p) THEN <<>>
        ELSE (IF p[k] = 304 THEN <<105, 775>>
              ELSE IF /\ p[k] = 931
                      /\ casedLetterNext(c, k - 1, -1)
                      /\ ~casedLetterNext(c, k + 1, 1)
              THEN <<962>>
              ELSE <<c[k].lower>>)
             \o lowered(p, c, k + 1)
      lowerCase(p) == codeUnits(lowered(p, properties(p), 1), 1)
      characters(u) == [i \in 1..Len(u) |-> charOf(u[i])]
  IN characters(lowerCase(codePoints([i \in 1..Len(s) |-> codeUnit(s[i])], 1)))

\* String.prototype.includes
includes(s, sub) ==
  \E i \in 0..(Len(s) - Len(sub)) : SubSeq(s, i + 1, i + Len(sub)) = sub

(***************************************************************************)
(* extractTranscriptSegment (server.js:781-804)                            *)
(***************************************************************************)
\* Math.floor((timestampSeconds / 60) * 150) in IEEE-754 double arithmetic,
\* for integer t with |5t| below 2^31.  The quotient t / 60 is rounded to 53
\* significant bits, and so is its product with 150.  For odd t the exact
\* value 5t/2 lies half-way between two integers and the rounding cannot
\* reach either.  For even t the exact value is the integer 5t/2, and the
\* double is that integer unless both roundings together move it:
\*   - e is the binary exponent of |t| / 60 (60 * 2^e <= |t| < 120 * 2^e), and
\*     a is the remainder of |t| * 2^(52-e) by 60, which the first rounding
\*     drops (a < 30) or fills up to 60 (a > 30); 2^n has the remainders
\*     4, 8, 16, 32 by 60 in turn;
\*   - the product is then off by 5a/2 or 5(60-a)/2 units of 2^(e-52), which
\*     the second rounding removes unless it exceeds half a unit in the
\*     last place; that happens only while the product has not passed the
\*     next power of two (5|t| < 2^(e+9), half a unit being 64) and
\*     a is in 26..29 (the double is below 5|t|/2) or in 31..34 (above).
\* Math.floor then gives 5t/2 - 1 for a positive t whose double is below and
\* for a negative t whose double is above in magnitude, e.g. t = 22, 352, -46.
approximateWordIndex(t) ==
  LET m == IF t < 0 THEN -t ELSE t
      RECURSIVE exponent(_)
      exponent(x) == IF x >= 120 THEN exponent(x \div 2) + 1
                     ELSE IF 0 < x /\ x < 60 THEN exponent(2 * x) - 1
                     ELSE 0
      e == exponent(m)
      beforePowerOfTwo == IF e >= 0 THEN (5 * m) \div (2 ^ e) < 512
                          ELSE 5 * m * (2 ^ (-e)) < 512
      a == ((m % 60) * <<4, 8, 16, 32>>[((50 - e) % 4) + 1]) % 60
      oneLess == /\ t % 2 = 0
                 /\ t # 0
                 /\ beforePowerOfTwo
                 /\ a \in (IF t > 0 THEN 26..29 ELSE 31..34)
  IN ((5 * t) \div 2) - (IF oneLess THEN 1 ELSE 0)

DefaultDuration == 30

\* seg.start_time || seg.start || 0
segStart(seg) == Or(seg.start_time, Or(seg.start, Num(0))).val

\* seg.end_time || seg.end || segStart + 5
segEnd(seg) == Or(seg.end_time, Or(seg.end, Num(segStart(seg) + 5))).val

\* seg.text || seg.words || ''
segText(seg) == Or(seg.text, Or(seg.words, Str(<<>>))).chars

\* variant: the window has no 5-second grace on either side
relevantSegmentsNoGrace(segs, timestampSeconds, duration) ==
  LET keep(seg) == /\ segStart(seg) >= timestampSeconds
                   /\ segEnd(seg) <= timestampSeconds + duration
  IN SelectSeq(segs, keep)

relevantSegments(segs, timestampSeconds, duration) ==
  LET keep(seg) == /\ segStart(seg) >= timestampSeconds - 5
                   /\ segEnd(seg) <= timestampSeconds + duration + 5
  IN SelectSeq(segs, keep)

\* variant: the words of a flat transcript are joined without a separator
extractTranscriptSegmentUnspaced(payload, timestampSeconds, duration) ==
  IF payload.tag = "string"
  THEN LET words == split(payload.chars, " ")
           wordIndex == approximateWordIndex(timestampSeconds)
           startIndex == Max(0, wordIndex - 25)
           endIndex == Min(Len(words), wordIndex + 75)
       IN Str(join(slice(words, startIndex, endIndex), <<>>))
  ELSE IF payload.tag = "array"
  THEN LET rel == relevantSegments(payload.items, timestampSeconds, duration)
       IN Str(join([i \in 1..Len(rel) |-> segText(rel[i])], <<" ">>))
  ELSE Null

extractTranscriptSegment(payload, timestampSeconds, duration) ==
  IF payload.tag = "string"
  THEN LET words == split(payload.chars, " ")
           wordIndex == approximateWordIndex(timestampSeconds)
           startIndex == Max(0, wordIndex - 25)
           endIndex == Min(Len(words), wordIndex + 75)
       IN Str(join(slice(words, startIndex, endIndex), <<" ">>))
  ELSE IF payload.tag = "array"
  THEN LET rel == relevantSegments(payload.items, timestampSeconds, duration)
       IN Str(join([i \in 1..Len(rel) |-> segText(rel[i])], <<" ">>))
  ELSE Null

(***************************************************************************)
(* searchListenNotes (server.js:695-751): choice among response.data.results*)
(***************************************************************************)
\* (ep.podcast?.title_original || '').toLowerCase()
podcastName(ep) == toLowerCase(Or(ep.podcastTitle, Str(<<>>)).chars)

\* variant: only a show name contained in the reference matches
showMatchesContainedOnly(ep, showName) ==
  includes(toLowerCase(showName.chars), podcastName(ep))

\* the predicate of response.data.results.find(...)
showMatches(ep, showName) ==
  LET showNameLower == toLowerCase(showName.chars)
  IN \/ includes(podcastName(ep), showNameLower)
     \/ includes(showNameLower, podcastName(ep))

\* the value returned when the request succeeded; showName is a string
searchListenNotes(results, showName) ==
  IF Truthy(results) /\ Len(results.items) > 0
  THEN LET rs == results.items
           hits == {i \in 1..Len(rs) : showMatches(rs[i], showName)}
           first == CHOOSE i \in hits : \A j \in hits : i <= j
           ep == IF Truthy(showName) /\ hits # {} THEN rs[first] ELSE rs[1]
       IN [tag |-> "episode",
           id |-> ep.id,
           title |-> ep.title_original,
           showName |-> Or(ep.podcastTitle, showName),
           audioUrl |-> ep.audio,
           thumbnail |-> ep.thumbnail,
           hasTranscript |-> Truthy(ep.transcript),
           transcript |-> Or(ep.transcript, Null)]
  ELSE Null

(***************************************************************************)
(* summarizeTranscript (server.js:940-951): parsing of the model's answer  *)
(***************************************************************************)
Digits == {"0", "1", "2", "3", "4", "5", "6", "7", "8", "9"}

\* The class [-...*] as the source file spells it: '-', U+201A, U+00C4,
\* U+00A2 and '*'.  A character outside ASCII is named by its code point;
\* the bullet U+2022 is not a member.
BulletMarks == {"-", "U+201A", "U+00C4", "U+00A2", "*"}

\* /^[-...*]\s/
matchBullet(s) == Len(s) >= 2 /\ s[1] \in BulletMarks /\ IsWhitespace(s[2])

\* /^\d+\.\s/
matchNumbered(s) ==
  \E k \in 1..Len(s) :
    /\ \A i \in 1..k : s[i] \in Digits
    /\ Len(s) >= k + 2
    /\ s[k + 1] = "."
    /\ IsWhitespace(s[k + 2])

\* line.trim().match(...) || line.trim().match(...)
isMarked(line) == matchBullet(trim(line)) \/ matchNumbered(trim(line))

\* variant: the marker is left in place
stripMarkerKeepsMarker(line) == trim(line)

\* line.replace(/^[-...*\d.]\s*/, '').trim()
stripMarker(line) ==
  IF line # <<>> /\ line[1] \in (BulletMarks \cup Digits \cup {"."})
  THEN trim(trimStart(Tail(line)))
  ELSE trim(line)

nonEmpty(line) == Len(line) > 0

parseBullets(content) ==
  LET marked == SelectSeq(split(content, "\n"), isMarked)
      stripped == [i \in 1..Len(marked) |-> stripMarker(marked[i])]
      bullets == slice(SelectSeq(stripped, nonEmpty), 0, 3)
  IN IF Len(bullets) > 0 THEN bullets ELSE <<trim(content)>>

(***************************************************************************)
(* parseInt(timestamp) || 0 (server.js:993)                                *)
(***************************************************************************)
NaN == [tag |-> "number", val |-> 0, nan |-> TRUE]

\* the value of a digit of radix 10 or 16; 16 for any other character
DigitValue(c) ==
  CASE c = "0" -> 0 [] c = "1" -> 1 [] c = "2" -> 2 [] c = "3" -> 3
    [] c = "4" -> 4 [] c = "5" -> 5 [] c = "6" -> 6 [] c = "7" -> 7
    [] c = "8" -> 8 [] c = "9" -> 9
    [] c \in {"a", "A"} -> 10 [] c \in {"b", "B"} -> 11
    [] c \in {"c", "C"} -> 12 [] c \in {"d", "D"} -> 13
    [] c \in {"e", "E"} -> 14 [] c \in {"f", "F"} -> 15
    [] OTHER -> 16

\* value of the longest prefix of digits of the radix, acc the value read
\* so far
RECURSIVE digitsValue(_, _, _)
digitsValue(s, radix, acc) ==
  IF s # <<>> /\ DigitValue(Head(s)) < radix
  THEN digitsValue(Tail(s), radix, radix * acc + DigitValue(Head(s)))
  ELSE acc

\* parseInt of a string without a radix: leading whitespace, optional sign,
\* radix 16 after the prefix 0x or 0X and 10 otherwise, then the digits of
\* the radix; NaN when there is none
parseIntString(s) ==
  LET t == trimStart(s)
      signed == t # <<>> /\ Head(t) \in {"-", "+"}
      unsigned == IF signed THEN Tail(t) ELSE t
      hex == Len(unsigned) >= 2 /\ unsigned[1] = "0"
             /\ unsigned[2] \in {"x", "X"}
      radix == IF hex THEN 16 ELSE 10
      body == IF hex THEN Tail(Tail(unsigned)) ELSE unsigned
  IN IF body = <<>> \/ DigitValue(Head(body)) >= radix THEN NaN
     ELSE IF signed /\ Head(t) = "-"
     THEN Num(0 - digitsValue(body, radix, 0))
     ELSE Num(digitsValue(body, radix, 0))

\* the decimal digits of a natural number
RECURSIVE decimal(_)
decimal(n) ==
  LET digit == <<"0", "1", "2", "3", "4", "5", "6", "7", "8", "9">>
  IN IF n < 10 THEN <<digit[n + 1]>>
     ELSE decimal(n \div 10) \o <<digit[(n % 10) + 1]>>

\* toString: an array is its elements joined by ',', undefined and null
\* among them as ''; a number here is an integer or NaN
RECURSIVE toString(_)
toString(v) ==
  CASE v.tag = "undefined" -> <<"u", "n", "d", "e", "f", "i", "n", "e", "d">>
    [] v.tag = "null" -> <<"n", "u", "l", "l">>
    [] v.tag = "string" -> v.chars
    [] v.tag = "number" ->
         IF v = NaN THEN <<"N", "a", "N">>
         ELSE IF v.val < 0 THEN <<"-">> \o decimal(0 - v.val)
         ELSE decimal(v.val)
    [] v.tag = "boolean" ->
         IF v.val THEN <<"t", "r", "u", "e">>
         ELSE <<"f", "a", "l", "s", "e">>
    [] v.tag = "array" ->
         join([i \in 1..Len(v.items) |->
                 IF v.items[i].tag \in {"undefined", "null"} THEN <<>>
                 ELSE toString(v.items[i])], <<",">>)
    [] OTHER -> <<"[", "o", "b", "j", "e", "c", "t", " ",
                  "O", "b", "j", "e", "c", "t", "]">>

\* parseInt(v): v is converted to a string first
parseInt(v) == parseIntString(toString(v))

\* NaN is falsy as well
timestampSecondsOf(v) ==
  LET n == parseInt(v)
  IN IF n = NaN \/ n.val = 0 THEN 0 ELSE n.val

(***************************************************************************)
(* Inputs: request bodies and the answers of the external services         *)
(***************************************************************************)
Failure == [tag |-> "error"]

\* req.body: { title, showName, timestamp } (spotifyUrl is only logged)
Body(title, showName, timestamp) ==
  [title |-> title, showName |-> showName, timestamp |-> timestamp]

Bodies ==
  {Body(Undefined, Undefined, Undefined),
   Body(Str(<<>>), Str(<<"S">>), Num(12)),
   Body(Str(<<"T">>), Undefined, Undefined),
   Body(Str(<<"T">>), Str(<<"S">>), Num(12)),
   Body(Str(<<"T">>), Undefined, Str(<<"-", "4", "0">>))}

Candidate(id, show, audio, tr) ==
  [id |-> id, title_original |-> Str(<<"t">>), podcastTitle |-> show,
   audio |-> audio, thumbnail |-> Str(<<"i">>), transcript |-> tr]

withAudio == Candidate("eA", Str(<<"A", "b">>), Str(<<"u">>), Undefined)
noAudio == Candidate("eN", Undefined, Null, Undefined)
withTranscript ==
  Candidate("eT", Str(<<"s", "a">>), Str(<<"u">>), Str(<<"a">>))
transcriptOnly == Candidate("eO", Str(<<"B">>), Undefined, Str(<<"a">>))

\* response.data.results of the search service, or Failure when axios throws
SearchOutcomes ==
  {Failure, Undefined, Arr(<<>>), Arr(<<withAudio>>), Arr(<<noAudio>>),
   Arr(<<transcriptOnly>>), Arr(<<withAudio, withTranscript>>)}

Segment(s, e, text) ==
  [start_time |-> Undefined, start |-> Num(s), end_time |-> Undefined,
   end |-> Num(e), text |-> Str(text), words |-> Undefined]

\* response.data.transcript of the episode endpoint, or Failure
TranscriptOutcomes ==
  {Failure, Undefined, Obj, Str(<<"a", " ", "b">>), Str(<<" ">>),
   Arr(<<Segment(10, 15, <<"a">>), Segment(50, 55, <<"b">>)>>)}

\* response.data of the transcription service, or Failure
WhisperOutcomes ==
  {Failure, Str(<<>>), Str(<<"\r", "\n">>), Str(<<"h", "i">>)}

\* choices[0].message.content of the language model, or Failure
SummaryOutcomes ==
  {Failure, Str(<<"-", " ", "a", "\n", "-", " ", "b">>), Str(<<"x", " ">>)}

\* sizes in bytes of what curl and ffmpeg leave on disk
DownloadSizes == {9999, 10000}
SnippetSizes == {999, 1000}

MinDownloadSize == 10000
MinSnippetSize == 1000

(***************************************************************************)
(* The temp directory                                                      *)
(***************************************************************************)
NoStamp == -1

\* path.join(TEMP_DIR, `full_${timestamp}.mp3`) and `snippet_${timestamp}.mp3`
Path(kind, t) == [tag |-> "path", kind |-> kind, stamp |-> t]
fullAudioPath(t) == Path("full", t)
snippetPath(t) == Path("snippet", t)

Paths == {Path(k, t) : k \in {"full", "snippet"}, t \in 0..MaxClock}

NoFile == [owner |-> "none", size |-> 0]
File(r, size) == [owner |-> r, size |-> size]

exists(p) == fs[p] # NoFile

\* fs.unlink(p): removes the file; ENOENT is swallowed by every caller
unlink(p) == [fs EXCEPT ![p] = NoFile]

(***************************************************************************)
(* HTTP responses of POST /process-insight                                 *)
(***************************************************************************)
Fail(status, message) ==
  [status |-> status, body |-> [success |-> FALSE, message |-> message]]

UnknownShow ==
  Str(<<"U", "n", "k", "n", "o", "w", "n", " ", "S", "h", "o", "w">>)

\* server.js:1009-1021
ManualResponse(body, timestampSeconds) ==
  [status |-> 200,
   body |-> [success |-> TRUE,
             data |-> [episodeTitle |-> body.title,
                       showName |-> Or(body.showName,
                                       UnknownShow),
                       thumbnail |-> Null,
                       transcript |-> Null,
                       summary |-> Null,
                       timestampSeconds |-> timestampSeconds,
                       manualMode |-> True,
                       message |-> "Podcast not found in database. You can add your own notes!"]]]

\* server.js:1074-1084; the object has no manualMode key
SuccessResponse(body, ep, t, summary, timestampSeconds) ==
  [status |-> 200,
   body |-> [success |-> TRUE,
             data |-> [episodeTitle |-> body.title,
                       showName |-> Or(body.showName, ep.showName),
                       thumbnail |-> ep.thumbnail,
                       transcript |-> t,
                       summary |-> summary,
                       timestampSeconds |-> timestampSeconds,
                       manualMode |-> Undefined]]]

\* the handler's catch block, server.js:1086-1091
CatchResponse(message) == Fail(500, message)

(***************************************************************************)
(* POST /process-insight (server.js:986-1098)                              *)
(*                                                                         *)
(* One action per await of the handler and of the functions it calls; an   *)
(* action runs the code from the completion of that await to the next      *)
(* await (or to the end of the handler).  The synchronous code is written  *)
(* as operators that give the next await (pc), the responses sent (resp)   *)
(* and the calls made (calls, before the response).  trace records a call  *)
(* when it is made.                                                        *)
(***************************************************************************)
\* the server is listening: no request received, the temp directory empty
Booted ==
  /\ pc = [r \in Runs |-> "idle"]
  /\ req = [r \in Runs |-> Undefined]
  /\ tsSeconds = [r \in Runs |-> 0]
  /\ episode = [r \in Runs |-> Undefined]
  /\ segment = [r \in Runs |-> Undefined]
  /\ transcript = [r \in Runs |-> Null]
  /\ audioPath = [r \in Runs |-> Null]
  /\ stamp = [r \in Runs |-> NoStamp]
  /\ downloadStats = [r \in Runs |-> NoFile]
  /\ err = [r \in Runs |-> ""]
  /\ responses = [r \in Runs |-> <<>>]
  /\ trace = [r \in Runs |-> <<>>]
  /\ made = [r \in Runs |-> {}]
  /\ child = [r \in Runs |-> Null]
  /\ audit = [r \in Runs |-> "none"]
  /\ fs = [p \in Paths |-> NoFile]
  /\ now = 0

NoCall == [fn |-> "none"]

(***************************************************************************)
(* The extension as loaded: the background service worker                  *)
(* (extension/background.js:1-154) and the popup page (popup.js, printed   *)
(* in README.md:117-336)                                                   *)
(***************************************************************************)
\* the listener runs the worker may have in progress at once: each is the
\* handling of a message on its port, or of a keyboard command
Ports == {"m1", "m2"}

\* the worker after `let recentInsights = []` (background.js:7) with the
\* list `insights` in chrome.storage.local; date is the clock of new Date();
\* no listener is running; sent are the sendResponse calls of a run and
\* notified the notifications it created
Started(insights) ==
  [recentInsights |-> <<>>, insights |-> insights, date |-> 0,
   started |-> TRUE, restarts |-> 0, messages |-> 0,
   port |-> [p \in Ports |->
              [action |-> "none", data |-> Undefined, pc |-> "closed",
               error |-> "", sent |-> <<>>, notified |-> <<>>]]]

\* installed (background.js:10-21 has run), nothing saved yet
Installed == [Started(<<>>) EXCEPT !.started = FALSE]

Flows == {"f1", "f2"}

\* the popup before DOMContentLoaded: shown is the state element that is
\* visible, disabled is UI.saveBtn.disabled, initial is the getSpotifyData
\* promise of README.md:329, flow[f] a run of handleSaveInsight (the await
\* it is suspended at, and its calls and their outcomes as history) and
\* timer[f] the reset timer that run has set
PopupLoading ==
  [shown |-> "none", disabled |-> FALSE, initial |-> "none",
   flow |-> [f \in Flows |-> [pc |-> "idle", trace |-> <<>>]],
   timer |-> [f \in Flows |-> "none"]]

Loaded == worker = Installed /\ popup = PopupLoading

Init == Booted /\ Loaded /\ call = NoCall

\* variant: only an absent title is rejected (title === undefined)
titleMissingUndefinedOnly(body) == body.title = Undefined

\* !title (server.js:989)
titleMissing(body) == ~Truthy(body.title)

\* server.js:989-1000
validate(body) ==
  IF titleMissing(body)
  THEN [pc |-> "done", resp |-> <<Fail(400, <<"Title is required">>)>>,
        calls |-> <<>>]
  ELSE [pc |-> "search", resp |-> <<>>, calls |-> <<"searchListenNotes">>]

\* where the handler goes once it has responded: the finally block awaits
\* cleanupTempFiles only when audioPath is set (server.js:1092-1097)
exit(ap) == IF Truthy(ap) THEN "finally" ELSE "done"

\* the handler's catch block and finally (server.js:1086-1097)
caught(message, ap) ==
  [pc |-> exit(ap), resp |-> <<CatchResponse(message)>>, calls |-> <<>>]

\* variant: the catch block answers 404
thrownNotFound(message, ap) ==
  [pc |-> exit(ap), resp |-> <<Fail(404, message)>>, calls |-> <<"failed">>]

\* variant: the catch block logs the error and sends nothing
thrownSilent(message, ap) ==
  [pc |-> exit(ap), resp |-> <<>>, calls |-> <<"failed">>]

\* a function the handler awaits throws: the handler's catch runs at once
thrown(message, ap) ==
  [pc |-> exit(ap), resp |-> <<CatchResponse(message)>>,
   calls |-> <<"failed">>]

\* variant: the first revision's answer, 404 without audit (server.js:339-344)
notFoundAs404(body, timestampSeconds) ==
  [pc |-> "done",
   resp |-> <<Fail(404, <<"Could not find podcast episode in Listen Notes">>)>>,
   calls |-> <<>>]

\* server.js:1003-1022: no episode found
notFound(body, timestampSeconds) ==
  [pc |-> "done", resp |-> <<ManualResponse(body, timestampSeconds)>>,
   calls |-> <<"logToSupabase">>]

\* variant: the transcript is not trimmed before the test
checkTranscriptNoTrim(t, ap) ==
  IF ~Truthy(t)
  THEN [pc |-> exit(ap),
        resp |-> <<Fail(500, <<"Failed to get transcript for this segment">>)>>,
        calls |-> <<>>]
  ELSE [pc |-> "summarize", resp |-> <<>>,
        calls |-> <<"summarizeTranscript">>]

\* variant: the 500 is sent without return, and the handler goes on
checkTranscriptFallsThrough(t, ap) ==
  IF ~Truthy(t) \/ Len(trim(t.chars)) = 0
  THEN [pc |-> "summarize",
        resp |-> <<Fail(500, <<"Failed to get transcript for this segment">>)>>,
        calls |-> <<"summarizeTranscript">>]
  ELSE [pc |-> "summarize", resp |-> <<>>,
        calls |-> <<"summarizeTranscript">>]

\* server.js:1057-1068, reached with the transcript t
checkTranscript(t, ap) ==
  IF ~Truthy(t) \/ Len(trim(t.chars)) = 0
  THEN [pc |-> exit(ap),
        resp |-> <<Fail(500, <<"Failed to get transcript for this segment">>)>>,
        calls |-> <<>>]
  ELSE [pc |-> "summarize", resp |-> <<>>,
        calls |-> <<"summarizeTranscript">>]

\* variant: audio is extracted whenever the episode has an audioUrl
afterTranscriptAudioFirst(ep, t) ==
  IF Truthy(ep.audioUrl)
  THEN [pc |-> "mkdir", resp |-> <<>>, calls |-> <<"extractAudioSnippet">>]
  ELSE IF ~Truthy(t)
  THEN [pc |-> "done",
        resp |-> <<Fail(404, <<"No audio URL available for this episode">>)>>,
        calls |-> <<>>]
  ELSE checkTranscript(t, Null)

\* variant: the audioUrl check of server.js:1041 is missing
afterTranscriptNoUrlCheck(ep, t) ==
  IF ~Truthy(t)
  THEN [pc |-> "mkdir", resp |-> <<>>, calls |-> <<"extractAudioSnippet">>]
  ELSE checkTranscript(t, Null)

\* variant: a missing segment is an empty-transcript error
afterTranscriptFailsEmpty(ep, t) == checkTranscript(t, Null)

\* server.js:1037-1068 with audioPath still null, up to the next await
afterTranscript(ep, t) ==
  IF ~Truthy(t)
  THEN IF ~Truthy(ep.audioUrl)
       THEN [pc |-> "done",
             resp |-> <<Fail(404, <<"No audio URL available for this episode">>)>>,
             calls |-> <<>>]
       ELSE [pc |-> "mkdir", resp |-> <<>>,
             calls |-> <<"extractAudioSnippet">>]
  ELSE checkTranscript(t, Null)

\* variant: the success path does not call logToSupabase
succeedNoAudit(body, ep, t, content, timestampSeconds, ap) ==
  [pc |-> exit(ap),
   resp |-> <<SuccessResponse(body, ep, t, Arr(parseBullets(content)),
                              timestampSeconds)>>,
   calls |-> <<>>]

\* server.js:1070-1097: audit call (not awaited), response, finally
succeed(body, ep, t, content, timestampSeconds, ap) ==
  [pc |-> exit(ap),
   resp |-> <<SuccessResponse(body, ep, t, Arr(parseBullets(content)),
                              timestampSeconds)>>,
   calls |-> <<"logToSupabase">>]

called(o, name) == \E i \in 1..Len(o.calls) : o.calls[i] = name

\* the handler moves on as o says; its locals die with it
Go(r, o, t, ap) ==
  /\ pc' = [pc EXCEPT ![r] = o.pc]
  /\ responses' = [responses EXCEPT ![r] = @ \o o.resp]
  /\ trace' = [trace EXCEPT ![r] =
                 @ \o o.calls \o [i \in 1..Len(o.resp) |-> "respond"]]
  /\ audit' = [audit EXCEPT ![r] =
                 IF called(o, "logToSupabase") THEN "pending" ELSE @]
  /\ transcript' = [transcript EXCEPT ![r] =
                      IF o.pc = "done" THEN Null ELSE t]
  /\ audioPath' = [audioPath EXCEPT ![r] =
                     IF o.pc = "done" THEN Null ELSE ap]
  /\ UNCHANGED <<call, worker, popup>>

\* server.js:987-1000
Receive(r) ==
  /\ pc[r] = "idle"
  /\ \E body \in Bodies :
       /\ req' = [req EXCEPT ![r] = body]
       /\ Go(r, validate(body), Null, Null)
       /\ tsSeconds' = [tsSeconds EXCEPT ![r] =
                          IF titleMissing(body) THEN @
                          ELSE timestampSecondsOf(body.timestamp)]
  /\ UNCHANGED <<episode, segment, stamp, downloadStats, err, made, child, fs, now>>

\* completion of searchListenNotes, server.js:1000-1046
Search(r) ==
  /\ pc[r] = "search"
  /\ \E out \in SearchOutcomes :
       IF out = Failure
       THEN /\ Go(r, thrown(<<"Failed to search for podcast episode">>, Null),
                  Null, Null)
            /\ UNCHANGED episode
       ELSE LET ep == searchListenNotes(out, Or(req[r].showName, Str(<<>>)))
            IN /\ episode' = [episode EXCEPT ![r] = ep]
               /\ IF ~Truthy(ep)
                  THEN Go(r, notFound(req[r], tsSeconds[r]), Null, Null)
                  ELSE IF ep.hasTranscript
                  THEN Go(r, [pc |-> "getTranscript", resp |-> <<>>,
                              calls |-> <<"getEpisodeTranscript">>],
                          Null, Null)
                  ELSE Go(r, afterTranscript(ep, Null), Null, Null)
  /\ UNCHANGED <<req, tsSeconds, segment, stamp, downloadStats, err, made, child,
                 fs, now>>

\* server.js:767-775: the transcript of the response, null when the response
\* has none or when the request failed (the catch logs and returns null)
getEpisodeTranscript(out) ==
  IF out # Failure /\ Truthy(out) THEN out ELSE Null

\* the catch of server.js:772-775, as an event of the run's trace
fetchEvents(out) ==
  IF out = Failure THEN <<"transcriptFetchFailed">> ELSE <<>>

\* variant: a failed transcript request is thrown to the handler
GetTranscriptRethrows(r) ==
  /\ pc[r] = "getTranscript"
  /\ \E out \in TranscriptOutcomes :
       LET fullTranscript == getEpisodeTranscript(out)
           t == IF Truthy(fullTranscript)
                THEN extractTranscriptSegment(fullTranscript, tsSeconds[r],
                                              DefaultDuration)
                ELSE Null
           o == IF out = Failure
                THEN thrown(<<"Failed to get episode transcript">>, Null)
                ELSE afterTranscript(episode[r], t)
       IN /\ Go(r, [o EXCEPT !.calls = fetchEvents(out) \o @], t, Null)
          /\ segment' = [segment EXCEPT ![r] =
                           IF Truthy(fullTranscript) THEN t ELSE @]
  /\ UNCHANGED <<req, tsSeconds, episode, stamp, downloadStats, err, made, child,
                 fs, now>>

\* completion of getEpisodeTranscript (server.js:756-776), then
\* server.js:1032-1068
GetTranscript(r) ==
  /\ pc[r] = "getTranscript"
  /\ \E out \in TranscriptOutcomes :
       LET fullTranscript == getEpisodeTranscript(out)
           t == IF Truthy(fullTranscript)
                THEN extractTranscriptSegment(fullTranscript, tsSeconds[r],
                                              DefaultDuration)
                ELSE Null
           o == afterTranscript(episode[r], t)
       IN /\ Go(r, [o EXCEPT !.calls = fetchEvents(out) \o @], t, Null)
          /\ segment' = [segment EXCEPT ![r] =
                           IF Truthy(fullTranscript) THEN t ELSE @]
  /\ UNCHANGED <<req, tsSeconds, episode, stamp, downloadStats, err, made, child,
                 fs, now>>

(***************************************************************************)
(* extractAudioSnippet (server.js:809-862)                                 *)
(***************************************************************************)
Stay(r, p, calls) ==
  /\ pc' = [pc EXCEPT ![r] = p]
  /\ trace' = [trace EXCEPT ![r] = @ \o calls]
  /\ UNCHANGED <<req, tsSeconds, episode, segment, transcript, responses,
                 audit, call, worker, popup>>

\* variant: a failed step starts the extraction again
ThrowRetries(r, message) ==
  /\ err' = [err EXCEPT ![r] = message]
  /\ Stay(r, "curl", <<"failed", "curl">>)

\* an error thrown inside the try block: control moves to the catch, which
\* awaits cleanupTempFiles([fullAudioPath, snippetPath])
Throw(r, message) ==
  /\ err' = [err EXCEPT ![r] = message]
  /\ Stay(r, "cleanupFull", <<"failed">>)

\* completion of ensureTempDir; Date.now() names both files; curl is started
Mkdir(r) ==
  /\ pc[r] = "mkdir"
  /\ \E t \in now..MaxClock :
       /\ now' = t
       /\ stamp' = [stamp EXCEPT ![r] = t]
       /\ child' = [child EXCEPT ![r] = fullAudioPath(t)]
  /\ Stay(r, "curl", <<"curl">>)
  /\ UNCHANGED <<audioPath, downloadStats, err, made, fs>>

\* the sizes a subprocess of run r can bring the file at p to with its next
\* write: with its first write it creates the file or truncates the one
\* that is there, later writes make the file longer, and writes to a file
\* that was unlinked after the subprocess opened it are not seen
writable(r, p, sizes) ==
  IF p.kind \notin made[r] THEN sizes
  ELSE IF exists(p) THEN {size \in sizes : size > fs[p].size}
  ELSE {}

\* the download subprocess at work: curl writes a part or all of the file.
\* It works while the handler awaits it, and goes on, write after write,
\* when the await has ended with the timeout of exec (server.js:828)
\* without ending curl
CurlWrites(r) ==
  /\ child[r] # Null
  /\ child[r].kind = "full"
  /\ \E size \in writable(r, child[r], DownloadSizes) :
       fs' = [fs EXCEPT ![child[r]] = File(r, size)]
  /\ made' = [made EXCEPT ![r] = @ \cup {"full"}]
  /\ Stay(r, pc[r], <<>>)
  /\ UNCHANGED <<audioPath, stamp, downloadStats, err, child, now>>

\* the end of await execAsync(curlCmd, { timeout: 180000 }):
\*  - curl exited 0 with the file written in full (a file it had opened and
\*    that was unlinked since stays unlinked);
\*  - curl failed: it has ended and the file is as it left it;
\*  - the timeout has passed: exec signals the shell it started and the
\*    await ends with the same error, while curl itself has ended or goes on
Curl(r) ==
  /\ pc[r] = "curl"
  /\ \/ /\ \E size \in DownloadSizes :
             /\ "full" \in made[r] /\ exists(fullAudioPath(stamp[r]))
                  => size >= fs[fullAudioPath(stamp[r])].size
             /\ fs' = IF "full" \in made[r]
                         /\ ~exists(fullAudioPath(stamp[r]))
                      THEN fs
                      ELSE [fs EXCEPT ![fullAudioPath(stamp[r])] =
                              File(r, size)]
        /\ made' = [made EXCEPT ![r] = @ \cup {"full"}]
        /\ child' = [child EXCEPT ![r] = Null]
        /\ Stay(r, "statFull", <<>>)
        /\ UNCHANGED err
     \/ /\ Throw(r, "curl failed")
        /\ child' = [child EXCEPT ![r] = Null]
        /\ UNCHANGED <<fs, made>>
     \/ /\ Throw(r, "curl failed")
        /\ UNCHANGED <<fs, made, child>>
  /\ UNCHANGED <<audioPath, stamp, downloadStats, now>>

\* variant: the download is checked against the snippet threshold
tooSmallSnippetThreshold(size) == size < MinSnippetSize

\* variant: the download is not checked
tooSmallNever(size) == FALSE

\* the size check of server.js:834
tooSmall(size) == size < MinDownloadSize

\* fs.stat(fullAudioPath) and the size check; ffmpeg is started
StatFull(r) ==
  /\ pc[r] = "statFull"
  /\ IF ~exists(fullAudioPath(stamp[r]))
     THEN Throw(r, "ENOENT") /\ UNCHANGED <<downloadStats, child>>
     ELSE /\ downloadStats' = [downloadStats EXCEPT ![r] =
                                 fs[fullAudioPath(stamp[r])]]
          /\ IF tooSmall(fs[fullAudioPath(stamp[r])].size)
             THEN Throw(r, "Downloaded file too small") /\ UNCHANGED child
             ELSE /\ Stay(r, "ffmpeg", <<"ffmpeg">>)
                  /\ child' = [child EXCEPT ![r] = snippetPath(stamp[r])]
                  /\ UNCHANGED err
  /\ UNCHANGED <<audioPath, stamp, made, fs, now>>

\* the trim subprocess at work: ffmpeg first opens the download, which
\* must be there then ("input" in made[r] from then on) and may be unlinked
\* afterwards; later it creates or truncates the snippet (-y overwrites)
\* and writes a part or all of it.  It works while the handler awaits it,
\* and goes on, step after step, when the await has ended with the timeout
\* of exec (server.js:842) without ending ffmpeg
FfmpegWrites(r) ==
  /\ child[r] # Null
  /\ child[r].kind = "snippet"
  /\ IF "input" \notin made[r]
     THEN /\ exists(fullAudioPath(child[r].stamp))
          /\ made' = [made EXCEPT ![r] = @ \cup {"input"}]
          /\ UNCHANGED fs
     ELSE /\ \E size \in writable(r, child[r], SnippetSizes) :
               fs' = [fs EXCEPT ![child[r]] = File(r, size)]
          /\ made' = [made EXCEPT ![r] = @ \cup {"snippet"}]
  /\ Stay(r, pc[r], <<>>)
  /\ UNCHANGED <<audioPath, stamp, downloadStats, err, child, now>>

\* the end of await execAsync(ffmpegCmd, { timeout: 60000 }):
\*  - ffmpeg exited 0 with the snippet written in full (it needs the
\*    download when it opens it; a snippet it had opened and that was
\*    unlinked since stays unlinked);
\*  - ffmpeg failed: it has ended and the snippet is as it left it;
\*  - the timeout has passed: the await ends with the same error, while
\*    ffmpeg itself has ended or goes on
Ffmpeg(r) ==
  /\ pc[r] = "ffmpeg"
  /\ \/ /\ "input" \in made[r] \/ exists(fullAudioPath(stamp[r]))
        /\ \E size \in SnippetSizes :
             /\ "snippet" \in made[r] /\ exists(snippetPath(stamp[r]))
                  => size >= fs[snippetPath(stamp[r])].size
             /\ fs' = IF "snippet" \in made[r]
                         /\ ~exists(snippetPath(stamp[r]))
                      THEN fs
                      ELSE [fs EXCEPT ![snippetPath(stamp[r])] =
                              File(r, size)]
        /\ made' = [made EXCEPT ![r] = @ \cup {"input", "snippet"}]
        /\ child' = [child EXCEPT ![r] = Null]
        /\ Stay(r, "unlinkFull", <<>>)
        /\ UNCHANGED err
     \/ /\ Throw(r, "ffmpeg failed")
        /\ child' = [child EXCEPT ![r] = Null]
        /\ UNCHANGED <<fs, made>>
     \/ /\ Throw(r, "ffmpeg failed")
        /\ UNCHANGED <<fs, made, child>>
  /\ UNCHANGED <<audioPath, stamp, downloadStats, now>>

\* await fs.unlink(fullAudioPath).catch(() => {})
UnlinkFull(r) ==
  /\ pc[r] = "unlinkFull"
  /\ fs' = unlink(fullAudioPath(stamp[r]))
  /\ Stay(r, "statSnippet", <<>>)
  /\ UNCHANGED <<audioPath, stamp, downloadStats, err, made, child, now>>

\* fs.stat(snippetPath) and the size check; on success the function returns
\* and the handler calls transcribeWithWhisper, which awaits fs.stat
StatSnippet(r) ==
  /\ pc[r] = "statSnippet"
  /\ IF ~exists(snippetPath(stamp[r]))
     THEN Throw(r, "ENOENT") /\ UNCHANGED <<audioPath, stamp>>
     ELSE IF fs[snippetPath(stamp[r])].size < MinSnippetSize
     THEN /\ Throw(r, "Audio snippet too small - extraction may have failed")
          /\ UNCHANGED <<audioPath, stamp>>
     ELSE /\ audioPath' = [audioPath EXCEPT ![r] = snippetPath(stamp[r])]
          /\ stamp' = [stamp EXCEPT ![r] = NoStamp]
          /\ Stay(r, "whisperStat", <<"transcribeWithWhisper">>)
          /\ UNCHANGED err
  /\ UNCHANGED <<downloadStats, made, child, fs, now>>

\* cleanupTempFiles, first file (server.js:682-690, called at 858)
CleanupFull(r) ==
  /\ pc[r] = "cleanupFull"
  /\ fs' = unlink(fullAudioPath(stamp[r]))
  /\ Stay(r, "cleanupSnippet", <<>>)
  /\ UNCHANGED <<audioPath, stamp, downloadStats, err, made, child, now>>

\* cleanupTempFiles, second file; the error is rethrown (server.js:860) and
\* the handler's catch answers 500; audioPath is null, so finally does nothing
CleanupSnippet(r) ==
  /\ pc[r] = "cleanupSnippet"
  /\ fs' = unlink(snippetPath(stamp[r]))
  /\ Go(r, caught(<<"Failed to extract audio snippet: ", err[r]>>, Null),
        Null, Null)
  /\ stamp' = [stamp EXCEPT ![r] = NoStamp]
  /\ err' = [err EXCEPT ![r] = ""]
  /\ UNCHANGED <<req, tsSeconds, episode, segment, downloadStats, made, child, now>>

(***************************************************************************)
(* transcribeWithWhisper, summarizeTranscript, logToSupabase, finally      *)
(***************************************************************************)
\* fs.stat(audioPath) in transcribeWithWhisper (server.js:870); the upload
\* is started when the file is there
WhisperStat(r) ==
  /\ pc[r] = "whisperStat"
  /\ IF ~exists(audioPath[r])
     THEN Go(r, thrown(<<"Failed to transcribe audio: ", "ENOENT">>,
                       audioPath[r]), transcript[r], audioPath[r])
     ELSE Go(r, [pc |-> "whisper", resp |-> <<>>, calls |-> <<"whisperPost">>],
             transcript[r], audioPath[r])
  /\ UNCHANGED <<req, tsSeconds, episode, segment, stamp, downloadStats, err,
                 made, child, fs, now>>

\* completion of the transcription request, then server.js:1057-1068
Whisper(r) ==
  /\ pc[r] = "whisper"
  /\ \E out \in WhisperOutcomes :
       IF out = Failure
       THEN Go(r, thrown(<<"Failed to transcribe audio: ", "upstream">>,
                         audioPath[r]), transcript[r], audioPath[r])
       ELSE Go(r, checkTranscript(out, audioPath[r]), out, audioPath[r])
  /\ UNCHANGED <<req, tsSeconds, episode, segment, stamp, downloadStats, err,
                 made, child, fs, now>>

\* completion of the language-model request, then server.js:1070-1084
Summarize(r) ==
  /\ pc[r] = "summarize"
  /\ \E out \in SummaryOutcomes :
       IF out = Failure
       THEN Go(r, thrown(<<"Failed to summarize transcript: ", "upstream">>,
                         audioPath[r]), transcript[r], audioPath[r])
       ELSE Go(r, succeed(req[r], episode[r], transcript[r], out.chars,
                          tsSeconds[r], audioPath[r]),
               transcript[r], audioPath[r])
  /\ UNCHANGED <<req, tsSeconds, episode, segment, stamp, downloadStats, err,
                 made, child, fs, now>>

\* finally: await cleanupTempFiles([audioPath]) (server.js:1092-1097)
Finally(r) ==
  /\ pc[r] = "finally"
  /\ fs' = unlink(audioPath[r])
  /\ Go(r, [pc |-> "done", resp |-> <<>>, calls |-> <<>>], Null, Null)
  /\ UNCHANGED <<req, tsSeconds, episode, segment, stamp, downloadStats, err,
                 made, child, now>>

\* variant: the call is awaited and a throw reaches the handler's catch
AuditSettleFatal(r) ==
  /\ audit[r] = "pending"
  /\ \E outcome \in {"ok", "error", "threw"} :
       /\ audit' = [audit EXCEPT ![r] = outcome]
       /\ responses' = [responses EXCEPT ![r] =
                          IF outcome = "threw"
                          THEN <<CatchResponse(<<"Failed to process insight">>)>>
                          ELSE @]
  /\ UNCHANGED <<pc, req, tsSeconds, episode, segment, transcript, audioPath,
                 stamp, downloadStats, err, trace, made, child, fs, now, call,
                 worker, popup>>

\* the insert of logToSupabase settles: it succeeds, returns an error object
\* or throws; all three are swallowed (server.js:961-980)
AuditSettle(r) ==
  /\ audit[r] = "pending"
  /\ \E outcome \in {"ok", "error", "threw"} :
       audit' = [audit EXCEPT ![r] = outcome]
  /\ UNCHANGED <<pc, req, tsSeconds, episode, segment, transcript, audioPath,
                 stamp, downloadStats, err, responses, trace, made, child, fs, now,
                 call, worker, popup>>

Step(r) ==
  \/ Receive(r)
  \/ Search(r)
  \/ GetTranscript(r)
  \/ Mkdir(r)
  \/ CurlWrites(r)
  \/ Curl(r)
  \/ StatFull(r)
  \/ FfmpegWrites(r)
  \/ Ffmpeg(r)
  \/ UnlinkFull(r)
  \/ StatSnippet(r)
  \/ CleanupFull(r)
  \/ CleanupSnippet(r)
  \/ WhisperStat(r)
  \/ Whisper(r)
  \/ Summarize(r)
  \/ Finally(r)
  \/ AuditSettle(r)

Next == \E r \in Runs : Step(r)

Spec == Init /\ [][Next]_vars

(***************************************************************************)
(* Progress of one run                                                     *)
(*                                                                         *)
(* A step is taken for sure when what it waits for is bound to end: a file *)
(* operation, a subprocess started with a timeout (curl 180 s, ffmpeg      *)
(* 60 s), the transcription request (timeout 60 s).  The three requests    *)
(* sent without a timeout option (search, episode transcript, language     *)
(* model) end only if the service answers or the connection drops, and so  *)
(* does the audit insert.                                                  *)
(***************************************************************************)
LiveRun == "r1"

LiveNext == Step(LiveRun)

Progress ==
  /\ WF_vars(Mkdir(LiveRun))
  /\ WF_vars(Curl(LiveRun))
  /\ WF_vars(StatFull(LiveRun))
  /\ WF_vars(Ffmpeg(LiveRun))
  /\ WF_vars(UnlinkFull(LiveRun))
  /\ WF_vars(StatSnippet(LiveRun))
  /\ WF_vars(CleanupFull(LiveRun))
  /\ WF_vars(CleanupSnippet(LiveRun))
  /\ WF_vars(WhisperStat(LiveRun))
  /\ WF_vars(Whisper(LiveRun))
  /\ WF_vars(Finally(LiveRun))

LiveSpec == Init /\ [][LiveNext]_vars /\ Progress

(***************************************************************************)
(* The helpers applied on their own                                        *)
(*                                                                         *)
(* A second specification: the initial state holds the arguments of one    *)
(* helper, drawn from bounded sets; an action is one invocation of that    *)
(* helper, at most MaxCalls times with the same arguments.  No request is  *)
(* in flight.                                                              *)
(***************************************************************************)
MaxCalls == 2      \* invocations with the same arguments
MaxChars == 4      \* length of an arbitrary flat transcript
MaxWords == 80     \* tokens of a generated flat transcript
MaxSegments == 2   \* segments of a segment-list transcript
MaxLines == 4      \* lines of a model answer
MaxResults == 3    \* candidates returned by the search service



Letter(i) == <<"a", "b", "c", "d", "e", "f">>[((i - 1) % 6) + 1]

\* a transcript of n one-letter words separated by single spaces
Words(n) == [i \in 1..n |-> <<Letter(i)>>]

\* a segment of a provider that names the keys start_time, end_time, words
SegmentTimed(s, e, text) ==
  [start_time |-> Num(s), start |-> Undefined, end_time |-> Num(e),
   end |-> Undefined, text |-> Undefined, words |-> Str(text)]

\* [start, end) with start < end
Spans == {p \in {0, 10, 40, 50} \X {5, 15, 45, 55, 60} : p[1] < p[2]}

\* arguments of extractTranscriptSegment(transcript, timestampSeconds, duration)
SegmenterArgs ==
  {[kind |-> "words", n |-> n, t |-> t, w |-> DefaultDuration] :
     n \in 1..MaxWords, t \in {0, 10, 11, 22, 30, 44}}
  \cup {[kind |-> "chars", chars |-> c, t |-> t, w |-> DefaultDuration] :
          c \in UNION {[1..k -> {"a", "b", " ", "\t", "\n"}] : k \in 0..MaxChars},
          t \in {-31, -29, 0, 11, 22}}
  \cup {[kind |-> "segments", spans |-> sp, keys |-> k, t |-> t, w |-> w] :
          sp \in UNION {[1..n -> Spans] : n \in 0..MaxSegments},
          k \in {"start", "start_time"}, t \in {0, 12},
          w \in {10, DefaultDuration}}

\* the transcript payload the arguments stand for
payloadOf(a) ==
  CASE a.kind = "words" -> Str(join(Words(a.n), <<" ">>))
    [] a.kind = "chars" -> Str(a.chars)
    [] a.kind = "segments" ->
         Arr([i \in 1..Len(a.spans) |->
                IF a.keys = "start"
                THEN Segment(a.spans[i][1], a.spans[i][2], <<Letter(i)>>)
                ELSE SegmentTimed(a.spans[i][1], a.spans[i][2], <<Letter(i)>>)])

\* lines a language model may answer with: lines that start with each
\* character of the parser's class, with the bullet U+2022, with a number,
\* with whitespace before the marker, with nothing after it, and plain text
AnswerLines ==
  {<<"-", " ", "a">>, <<"-", " ", "b", "\r">>, <<"*", " ", "c">>,
   <<"1", ".", " ", "d">>, <<"1", "0", ".", " ", "e">>,
   <<" ", " ", "-", " ", "f">>, <<"x">>, <<"-", " ">>,
   <<"U+2022", " ", "g">>, <<"U+00A2", " ", "h">>, <<"U+201A", " ", "i">>,
   <<"U+00C4", " ", "j">>}

\* arguments of the parsing step of summarizeTranscript: the answer's lines
SummarizerArgs ==
  {[lines |-> l] : l \in UNION {[1..n -> AnswerLines] : n \in 1..MaxLines}}

\* choices[0].message.content
contentOf(a) == join(a.lines, <<"\n">>)

Candidates == {withAudio, noAudio, withTranscript, transcriptOnly}

\* arguments of searchListenNotes and the answer of the search service
SearchArgs ==
  {[results |-> rs, showName |-> sn] :
     rs \in {Failure, Undefined}
            \cup {Arr(c) : c \in UNION {[1..n -> Candidates] :
                                           n \in 0..MaxResults}},
     sn \in {Str(<<>>), Str(<<"S">>), Str(<<"T">>), Str(<<"A", "b">>)}}

\* what the handler holds when it builds the success response: a body with
\* a title, an episode with an audio URL or a transcript (server.js:994,
\* 1041-1046), a transcript that is not blank (server.js:1057) and the
\* model's answer that summarizeTranscript parses
ResponseArgs ==
  {[revision |-> v, body |-> b,
    episode |-> searchListenNotes(Arr(<<c>>), Or(b.showName, Str(<<>>))),
    transcript |-> t, answer |-> [lines |-> <<l>>]] :
     v \in {1, 2}, b \in {x \in Bodies : ~titleMissing(x)},
     c \in {x \in Candidates : Truthy(x.audio) \/ Truthy(x.transcript)},
     t \in {Str(<<"a">>), Str(<<"h", "i">>)}, l \in AnswerLines}

\* server.js:395-406, the success response of the first revision
SuccessResponseFirstRevision(body, ep, t, summary, timestampSeconds) ==
  [status |-> 200,
   body |-> [success |-> TRUE,
             data |-> [episodeTitle |-> ep.title,
                       showName |-> ep.showName,
                       thumbnail |-> ep.thumbnail,
                       transcript |-> t,
                       summary |-> summary,
                       timestampSeconds |-> timestampSeconds,
                       manualMode |-> Undefined]]]

\* the body the popup posts to /save-to-notion (README.md:276-299);
\* processedResult is the JSON of a 200 answer, whose data is an object
saveRequest(spotifyData, processedResult) ==
  LET processedData == processedResult.data
      isManualMode == processedData.manualMode = True
  IN spread(spotifyData,
            [title |-> Or(processedData.episodeTitle, spotifyData.title),
             showName |-> Or(processedData.showName, spotifyData.showName),
             transcript |-> processedData.transcript,
             summary |-> processedData.summary,
             thumbnail |-> processedData.thumbnail,
             timestampSeconds |-> Or(Num(processedData.timestampSeconds),
                                     spotifyData.timestamp),
             manualMode |-> [tag |-> "boolean", val |-> isManualMode]])

\* variant: the notes placeholder is added only when no summary was built
pageChildrenNotesAfterSummaryOnly(body) ==
  LET summary == body.summary
      segmentText == body.transcript
      bullets == [i \in 1..Len(summary.items) |->
                    <<"U+201A", "U+00C4", "U+00A2", " ">>
                      \o summary.items[i].chars]
      summaryText == IF summary.tag = "array"
                     THEN Str(join(bullets, <<"\n">>)) ELSE summary
      hasSummary == /\ Truthy(summary)
                    /\ \/ summary.tag = "array" /\ Len(summary.items) > 0
                       \/ summary.tag = "string" /\ Len(summary.chars) > 0
  IN (IF hasSummary
      THEN <<[type |-> "heading_2", heading |-> "Key Takeaways"],
             [type |-> "paragraph", content |-> summaryText],
             [type |-> "divider"]>>
      ELSE <<>>)
     \o (IF Truthy(segmentText)
         THEN <<[type |-> "heading_2", heading |-> "Transcript"],
                [type |-> "paragraph",
                 content |-> Str(slice(segmentText.chars, 0, 2000))]>>
         ELSE IF hasSummary
         THEN <<[type |-> "heading_2", heading |-> "Your Notes"],
                [type |-> "paragraph",
                 content |-> "(Podcast not found in database - add your own notes here!)"]>>
         ELSE <<>>)
     \o <<[type |-> "callout", show |-> Or(body.showName, UnknownShow),
           at |-> body.timestampSeconds]>>

\* server.js:1130-1224: the blocks of the page.  The bullet prefix is spelt
\* as the source file spells it (U+201A, U+00C4, U+00A2); the callout is
\* kept as the two values its text is made of
pageChildren(body) ==
  LET summary == body.summary
      segmentText == body.transcript
      bullets == [i \in 1..Len(summary.items) |->
                    <<"U+201A", "U+00C4", "U+00A2", " ">>
                      \o summary.items[i].chars]
      summaryText == IF summary.tag = "array"
                     THEN Str(join(bullets, <<"\n">>)) ELSE summary
      hasSummary == /\ Truthy(summary)
                    /\ \/ summary.tag = "array" /\ Len(summary.items) > 0
                       \/ summary.tag = "string" /\ Len(summary.chars) > 0
  IN (IF hasSummary
      THEN <<[type |-> "heading_2", heading |-> "Key Takeaways"],
             [type |-> "paragraph", content |-> summaryText],
             [type |-> "divider"]>>
      ELSE <<>>)
     \o (IF Truthy(segmentText)
         THEN <<[type |-> "heading_2", heading |-> "Transcript"],
                [type |-> "paragraph",
                 content |-> Str(slice(segmentText.chars, 0, 2000))]>>
         ELSE <<[type |-> "heading_2", heading |-> "Your Notes"],
                [type |-> "paragraph",
                 content |-> "(Podcast not found in database - add your own notes here!)"]>>)
     \o <<[type |-> "callout", show |-> Or(body.showName, UnknownShow),
           at |-> body.timestampSeconds]>>

\* POST /save-to-notion (server.js:1104-1293); databaseId: whether
\* NOTION_DATABASE_ID is set, created: what notion.pages.create settles
\* with, the page { id, url } or an error thrown with a message, which may
\* be empty (error.message || 'Failed to save to Notion')
saveToNotion(body, databaseId, created) ==
  IF ~Truthy(body.title)
  THEN Fail(400, <<"Title is required">>)
  ELSE IF ~databaseId
  THEN Fail(500, <<"Notion database ID not configured">>)
  ELSE IF created.tag = "thrown"
  THEN Fail(500, IF created.message # <<>> THEN created.message
                 ELSE <<"Failed to save to Notion">>)
  ELSE [status |-> 200,
        body |-> [success |-> TRUE,
                  data |-> [notionPageId |-> created.id,
                            notionUrl |-> created.url]],
        page |-> [manual |-> Truthy(body.manualMode),
                  children |-> pageChildren(body)]]

\* requests to /save-to-notion: the popup's, for a manual-mode result and for
\* a result with transcript and summary, and requests made directly
NotionArgs ==
  LET titled == {b \in Bodies : ~titleMissing(b)}
      found(b) == searchListenNotes(Arr(<<withAudio>>), Or(b.showName, Str(<<>>)))
      requests ==
        {[kind |-> "manual",
          body |-> saveRequest(b, ManualResponse(
                                    b, timestampSecondsOf(b.timestamp)).body)] :
           b \in titled}
        \cup
        {[kind |-> "found",
          body |-> saveRequest(b, SuccessResponse(
                                    b, found(b), Str(<<"h", "i">>),
                                    Arr(<<Str(<<"a">>), Str(<<"b">>)>>),
                                    timestampSecondsOf(b.timestamp)).body)] :
           b \in titled}
        \cup
        {[kind |-> "direct",
          body |-> [title |-> title, showName |-> Undefined,
                    transcript |-> text, summary |-> summary,
                    thumbnail |-> Undefined, timestampSeconds |-> Num(12),
                    manualMode |-> Undefined]] :
           title \in {Undefined, Str(<<>>), Str(<<"T">>)},
           text \in {Undefined, Null, Str(<<>>), Str(<<" ">>),
                           Str(<<"h", "i">>)},
           summary \in {Undefined, Null, Arr(<<>>), Str(<<>>), Str(<<"x">>),
                        Arr(<<Str(<<"a">>), Str(<<"b">>)>>)}}
  IN {[kind |-> r.kind, body |-> r.body, databaseId |-> d, created |-> c] :
        r \in requests, d \in BOOLEAN,
        c \in {[tag |-> "page", id |-> "p", url |-> "u"],
               [tag |-> "thrown", message |-> <<"Could not find database">>],
               [tag |-> "thrown", message |-> <<>>]}}

NewCall(fn, a) ==
  [fn |-> fn, arg |-> a, times |-> 0, requests |-> 0, pending |-> FALSE,
   out |-> Undefined]

PureInit ==
  /\ Booted
  /\ Loaded
  /\ call \in {NewCall("extractTranscriptSegment", a) : a \in SegmenterArgs}
        \cup {NewCall("summarizeTranscript", a) : a \in SummarizerArgs}
        \cup {NewCall("searchListenNotes", a) : a \in SearchArgs}
        \cup {NewCall("respond", a) : a \in ResponseArgs}
        \cup {NewCall("saveToNotion", a) : a \in NotionArgs}

Returns(v) ==
  /\ call' = [call EXCEPT !.times = @ + 1, !.pending = FALSE, !.out = v]
  /\ UNCHANGED <<pc, req, tsSeconds, episode, segment, transcript, audioPath,
                 stamp, downloadStats, err, responses, trace, made, child, audit,
                 fs, now, worker, popup>>

\* extractTranscriptSegment (server.js:781-804)
ExtractSegment ==
  /\ call.fn = "extractTranscriptSegment"
  /\ call.times < MaxCalls
  /\ Returns(extractTranscriptSegment(payloadOf(call.arg), call.arg.t,
                                      call.arg.w))

\* summarizeTranscript from the model's answer on (server.js:940-951)
ParseSummary ==
  /\ call.fn = "summarizeTranscript"
  /\ call.times < MaxCalls
  /\ Returns(Arr(parseBullets(contentOf(call.arg))))

\* searchListenNotes up to its await: the GET is sent (server.js:695-714)
SearchRequest ==
  /\ call.fn = "searchListenNotes"
  /\ call.times < MaxCalls
  /\ ~call.pending
  /\ call' = [call EXCEPT !.requests = @ + 1, !.pending = TRUE]
  /\ UNCHANGED <<pc, req, tsSeconds, episode, segment, transcript, audioPath,
                 stamp, downloadStats, err, responses, trace, made, child, audit,
                 fs, now, worker, popup>>

\* searchListenNotes from the completion of the GET on (server.js:716-750)
SearchSettle ==
  /\ call.fn = "searchListenNotes"
  /\ call.pending
  /\ Returns(IF call.arg.results = Failure
             THEN [tag |-> "thrown",
                   message |-> <<"Failed to search for podcast episode">>]
             ELSE searchListenNotes(call.arg.results, call.arg.showName))

\* res.json({ success: true, data }) of either revision, with
\* timestampSeconds = parseInt(timestamp) || 0 and summary = the result of
\* summarizeTranscript
Respond ==
  /\ call.fn = "respond"
  /\ call.times < MaxCalls
  /\ LET a == call.arg
         summary == Arr(parseBullets(contentOf(a.answer)))
         timestampSeconds == timestampSecondsOf(a.body.timestamp)
     IN Returns(IF a.revision = 1
                THEN SuccessResponseFirstRevision(a.body, a.episode,
                                                  a.transcript, summary,
                                                  timestampSeconds)
                ELSE SuccessResponse(a.body, a.episode, a.transcript,
                                     summary, timestampSeconds))

\* POST /save-to-notion up to its await (server.js:1104-1227): a request
\* without a title or without a configured database is answered at once,
\* any other waits for notion.pages.create.  The handler reads and writes
\* nothing that another request shares
SaveToNotion ==
  /\ call.fn = "saveToNotion"
  /\ call.times < MaxCalls
  /\ ~call.pending
  /\ IF ~Truthy(call.arg.body.title) \/ ~call.arg.databaseId
     THEN Returns(saveToNotion(call.arg.body, call.arg.databaseId,
                               call.arg.created))
     ELSE /\ call' = [call EXCEPT !.requests = @ + 1, !.pending = TRUE]
          /\ UNCHANGED <<pc, req, tsSeconds, episode, segment, transcript,
                         audioPath, stamp, downloadStats, err, responses,
                         trace, made, child, audit, fs, now, worker, popup>>

\* POST /save-to-notion from the completion of notion.pages.create on
\* (server.js:1227-1291)
NotionSettle ==
  /\ call.fn = "saveToNotion"
  /\ call.pending
  /\ Returns(saveToNotion(call.arg.body, call.arg.databaseId,
                          call.arg.created))

PureNext ==
  \/ SaveToNotion
  \/ NotionSettle
  \/ ExtractSegment
  \/ ParseSummary
  \/ SearchRequest
  \/ SearchSettle
  \/ Respond

PureSpec == PureInit /\ [][PureNext]_vars

(***************************************************************************)
(* The background service worker (extension/background.js:1-154)           *)
(*                                                                         *)
(* One action per event the worker handles and per await of its handlers.  *)
(* chrome.storage.local serialises its operations, so a set takes effect   *)
(* in call order and is modelled at the call.  The `settings` key is not   *)
(* part of the model.                                                      *)
(***************************************************************************)
MaxMessages == 3
MaxRestarts == 1
MaxDate == 1

\* background.js:82-83
MaxInsights == 10

serverVars == <<pc, req, tsSeconds, episode, segment, transcript, audioPath,
                stamp, downloadStats, err, responses, trace, made, child, audit, fs,
                now, call>>

\* new Date().toISOString(): one string per instant, ordered as the instants
toISOString(date) == [iso |-> date]

\* what the content script reports (background.js:345-354); the number n
\* stands for the n-th distinct episode title
SpotifyData(n) == [title |-> n, timestamp |-> 12]

\* the JSON body of a 200 answer of the backend
Result(data) == [success |-> TRUE, data |-> [episodeTitle |-> data.title]]

\* background.js:75-79
insight(spotifyData, result, date) ==
  spread(spread(spotifyData, result), [timestamp |-> toISOString(date)])

\* variant: the new insight is appended (push), not put in front
storedAtEnd(w, spotifyData, result) ==
  LET pushed == w.recentInsights \o <<insight(spotifyData, result, w.date)>>
      kept == IF Len(pushed) > MaxInsights
              THEN slice(pushed, 0, MaxInsights) ELSE pushed
  IN [w EXCEPT !.recentInsights = kept, !.insights = kept]

\* background.js:74-87: unshift, keep the first ten, persist
stored(w, spotifyData, result) ==
  LET unshifted == <<insight(spotifyData, result, w.date)>> \o w.recentInsights
      kept == IF Len(unshifted) > MaxInsights
              THEN slice(unshifted, 0, MaxInsights) ELSE unshifted
  IN [w EXCEPT !.recentInsights = kept, !.insights = kept]

\* sendResponse(response) on port p
respond(w, p, response) ==
  [w EXCEPT !.port[p].pc = "done", !.port[p].sent = @ \o <<response>>]

\* the promise of the handler settles: a message is answered with
\* sendResponse (background.js:28-29, 34-35), a keyboard command with a
\* notification (background.js:129-146)
settled(w, p, response, message) ==
  IF w.port[p].action = "save-insight"
  THEN [w EXCEPT !.port[p].pc = "done",
                 !.port[p].notified = @ \o <<[message |-> message]>>]
  ELSE respond(w, p, response)

\* variant: the insight is recorded in a finally block, also on failure
failedButStored(w, p, message) ==
  settled(stored([w EXCEPT !.port[p].error = message], w.port[p].data,
                 [success |-> FALSE, message |-> message]),
          p, [success |-> FALSE, error |-> message], <<"Error: ", message>>)

\* the handler throws (background.js:90-93, 113-116): the listener's catch
\* answers { success: false, error } (background.js:29, 35), that of the
\* keyboard command notifies `Error: ${error.message}`
failed(w, p, message) ==
  settled([w EXCEPT !.port[p].error = message], p,
          [success |-> FALSE, error |-> message], <<"Error: ", message>>)

\* the worker n saves after installation, all in the same instant
AfterSaves(n) ==
  [Installed EXCEPT
     !.recentInsights = [i \in 1..n |->
                           insight(SpotifyData(n + 1 - i),
                                   Result(SpotifyData(n + 1 - i)), 0)],
     !.insights = [i \in 1..n |->
                     insight(SpotifyData(n + 1 - i),
                             Result(SpotifyData(n + 1 - i)), 0)]]

WorkerInit ==
  /\ Booted
  /\ call = NoCall
  /\ popup = PopupLoading
  /\ worker \in {AfterSaves(n) : n \in {0, MaxInsights - 1}}

\* the listener of background.js:24-54 runs for a message on port p
OnMessage(p) ==
  /\ worker.port[p].pc \in {"closed", "done", "lost"}
  /\ worker.messages < MaxMessages
  /\ \E action \in {"PROCESS_INSIGHT", "SAVE_TO_NOTION",
                    "GET_RECENT_INSIGHTS"} :
       LET data == SpotifyData(MaxInsights + worker.messages)
           w == [worker EXCEPT
                   !.messages = @ + 1, !.started = FALSE,
                   !.port[p] = [action |-> action, data |-> data,
                                pc |-> "fetch", error |-> "", sent |-> <<>>,
                                notified |-> <<>>]]
       IN worker' = IF action = "GET_RECENT_INSIGHTS"
                    THEN respond(w, p, [success |-> TRUE,
                                        insights |-> w.recentInsights])
                    ELSE w
  /\ UNCHANGED <<serverVars, popup>>

\* the listener of background.js:120-151 runs for the keyboard command
\* save-insight: it asks for the active tab; data is what the content script
\* of that tab will report
OnCommand(p) ==
  /\ worker.port[p].pc \in {"closed", "done", "lost"}
  /\ worker.messages < MaxMessages
  /\ worker' = [worker EXCEPT
                  !.messages = @ + 1, !.started = FALSE,
                  !.port[p] = [action |-> "save-insight",
                               data |-> SpotifyData(MaxInsights
                                                    + worker.messages),
                               pc |-> "tabs", error |-> "", sent |-> <<>>,
                               notified |-> <<>>]]
  /\ UNCHANGED <<serverVars, popup>>

\* the callback of chrome.tabs.query runs: the active tab is a Spotify tab
\* and is asked for GET_SPOTIFY_DATA, or nothing more happens; then the
\* callback of chrome.tabs.sendMessage runs: on a successful response
\* handleProcessInsight is called, else nothing more happens
\* (background.js:123-127)
CommandSettle(p) ==
  /\ worker.port[p].pc \in {"tabs", "content"}
  /\ \E goesOn \in BOOLEAN :
       worker' = [worker EXCEPT !.port[p].pc =
                    IF ~goesOn THEN "done"
                    ELSE IF @ = "tabs" THEN "content" ELSE "fetch"]
  /\ UNCHANGED <<serverVars, popup>>

\* the fetch of background.js:59-65 or 99-105 settles
FetchSettle(p) ==
  /\ worker.port[p].pc = "fetch"
  /\ \E outcome \in {"rejected", "ok", "notOk"} :
       worker' = IF outcome = "rejected"
                 THEN failed(worker, p, "Failed to fetch")
                 ELSE IF outcome = "ok"
                 THEN [worker EXCEPT !.port[p].pc = "json"]
                 ELSE [worker EXCEPT !.port[p].pc = "errorJson"]
  /\ UNCHANGED <<serverVars, popup>>

\* response.json() of a non-OK answer settles (background.js:67-70, 107-110):
\* the body is an error object, one without message, or not JSON
ErrorJsonSettle(p) ==
  /\ worker.port[p].pc = "errorJson"
  /\ \E body \in {[json |-> TRUE, message |-> "Title is required"],
                  [json |-> TRUE, message |-> ""],
                  [json |-> FALSE, message |-> ""]} :
       worker' = failed(worker, p,
                        IF ~body.json THEN "Unexpected token <"
                        ELSE IF body.message # "" THEN body.message
                        ELSE IF worker.port[p].action = "SAVE_TO_NOTION"
                        THEN "Failed to save to Notion"
                        ELSE "Failed to process insight")
  /\ UNCHANGED <<serverVars, popup>>

\* response.json() of an OK answer settles (background.js:72-89, 112)
JsonSettle(p) ==
  /\ worker.port[p].pc = "json"
  /\ \E parsed \in BOOLEAN :
       LET m == worker.port[p]
       IN worker' =
            IF ~parsed THEN failed(worker, p, "Unexpected token <")
            ELSE IF m.action = "SAVE_TO_NOTION"
            THEN respond(worker, p, Result(m.data))
            ELSE settled(stored(worker, m.data, Result(m.data)), p,
                         [success |-> TRUE, data |-> Result(m.data)],
                         <<"Insight saved successfully!">>)
  /\ UNCHANGED <<serverVars, popup>>

\* the browser stops the service worker (idle, or an update); the script
\* runs again at the next event: recentInsights is [] again
\* (background.js:7) and the promises of the stopped worker never settle
Terminate ==
  /\ worker.restarts < MaxRestarts
  /\ worker' = [worker EXCEPT
       !.restarts = @ + 1, !.started = TRUE, !.recentInsights = <<>>,
       !.port = [p \in Ports |->
                   IF worker.port[p].pc \in {"tabs", "content", "fetch",
                                             "json", "errorJson"}
                   THEN [worker.port[p] EXCEPT !.pc = "lost"]
                   ELSE worker.port[p]]]
  /\ UNCHANGED <<serverVars, popup>>

\* chrome.runtime.onInstalled fires in a worker started for an update
\* (background.js:10-21)
OnInstalled ==
  /\ worker.started /\ worker.restarts > 0
  /\ worker' = [worker EXCEPT !.started = FALSE, !.insights = <<>>]
  /\ UNCHANGED <<serverVars, popup>>

\* time passes
DatePasses ==
  /\ worker.date < MaxDate
  /\ worker' = [worker EXCEPT !.date = @ + 1]
  /\ UNCHANGED <<serverVars, popup>>

WorkerNext ==
  \/ \E p \in Ports : OnMessage(p)
  \/ \E p \in Ports : OnCommand(p)
  \/ \E p \in Ports : CommandSettle(p)
  \/ \E p \in Ports : FetchSettle(p)
  \/ \E p \in Ports : ErrorJsonSettle(p)
  \/ \E p \in Ports : JsonSettle(p)
  \/ Terminate
  \/ OnInstalled
  \/ DatePasses

\* reading a body that has arrived ends; a fetch has no time limit
WorkerSpec ==
  /\ WorkerInit
  /\ [][WorkerNext]_vars
  /\ \A p \in Ports : WF_vars(ErrorJsonSettle(p)) /\ WF_vars(JsonSettle(p))

(***************************************************************************)
(* The popup (popup.js as printed in README.md:117-336)                    *)
(*                                                                         *)
(* One action per event of the page and per await of handleSaveInsight.    *)
(* The save button can be clicked whenever it is enabled.                  *)
(***************************************************************************)
\* README.md:145-186 (the texts shown are left out)
showState(p, stateName) ==
  [p EXCEPT !.shown = stateName, !.disabled = (stateName = "processing")]

\* run f of handleSaveInsight goes on to its next await
proceed(p, f, next, events) ==
  [p EXCEPT !.flow[f].pc = next, !.flow[f].trace = @ \o events]

\* variant: a failed step is logged and the flow saves all the same
rejectedButSaves(p, f) ==
  proceed(showState(p, "processing"), f, "saveToNotion",
          <<"failed", "saveToNotion">>)

\* the catch of README.md:313-321: error state and a 5 s reset timer
rejected(p, f) ==
  [proceed(showState(p, "error"), f, "done", <<"failed", "error">>)
     EXCEPT !.timer[f] = "set"]

PopupInit ==
  /\ Booted
  /\ call = NoCall
  /\ worker = Installed
  /\ popup = PopupLoading

\* README.md:325-335
DOMContentLoaded ==
  /\ popup.initial = "none"
  /\ popup' = [showState(popup, "default") EXCEPT !.initial = "pending"]
  /\ UNCHANGED <<serverVars, worker>>

\* the getSpotifyData of README.md:329-331 settles
InitialSettle ==
  /\ popup.initial = "pending"
  /\ \E stateName \in {"nowPlaying", "default"} :
       popup' = [showState(popup, stateName) EXCEPT !.initial = "settled"]
  /\ UNCHANGED <<serverVars, worker>>

\* a click on the enabled save button starts handleSaveInsight
\* (README.md:259-263, 334)
Click(f) ==
  /\ popup.initial # "none"
  /\ ~popup.disabled
  /\ popup.flow[f].pc = "idle"
  /\ f = "f2" => popup.flow["f1"].pc # "idle"
  /\ popup' = proceed(showState(popup, "processing"), f, "getSpotifyData",
                      <<"getSpotifyData">>)
  /\ UNCHANGED <<serverVars, worker>>

\* README.md:263-267
GetSpotifyDataSettle(f) ==
  /\ popup.flow[f].pc = "getSpotifyData"
  /\ \E resolved \in BOOLEAN :
       popup' = IF resolved
                THEN proceed(showState(popup, "nowPlaying"), f, "shown",
                             <<"ok">>)
                ELSE rejected(popup, f)
  /\ UNCHANGED <<serverVars, worker>>

\* one of the two 500 ms pauses ends (README.md:267-274)
PauseEnds(f) ==
  /\ popup.flow[f].pc \in {"shown", "searching"}
  /\ popup' = IF popup.flow[f].pc = "shown"
              THEN proceed(showState(popup, "processing"), f, "searching",
                           <<>>)
              ELSE proceed(showState(popup, "processing"), f,
                           "processInsight", <<"processInsight">>)
  /\ UNCHANGED <<serverVars, worker>>

\* README.md:274-299
ProcessInsightSettle(f) ==
  /\ popup.flow[f].pc = "processInsight"
  /\ \E resolved \in BOOLEAN :
       popup' = IF resolved
                THEN proceed(showState(popup, "processing"), f,
                             "saveToNotion", <<"ok", "saveToNotion">>)
                ELSE rejected(popup, f)
  /\ UNCHANGED <<serverVars, worker>>

\* README.md:290-311
SaveToNotionSettle(f) ==
  /\ popup.flow[f].pc = "saveToNotion"
  /\ \E resolved \in BOOLEAN :
       popup' = IF resolved
                THEN [proceed(showState(popup, "success"), f, "done",
                              <<"ok", "success">>)
                        EXCEPT !.timer[f] = "set"]
                ELSE rejected(popup, f)
  /\ UNCHANGED <<serverVars, worker>>

\* the reset timer of README.md:309-311 or 318-320 fires
TimerFires(f) ==
  /\ popup.timer[f] = "set"
  /\ popup' = [showState(popup, "default") EXCEPT !.timer[f] = "fired"]
  /\ UNCHANGED <<serverVars, worker>>

PopupNext ==
  \/ DOMContentLoaded
  \/ InitialSettle
  \/ \E f \in Flows : Click(f)
  \/ \E f \in Flows : GetSpotifyDataSettle(f)
  \/ \E f \in Flows : PauseEnds(f)
  \/ \E f \in Flows : ProcessInsightSettle(f)
  \/ \E f \in Flows : SaveToNotionSettle(f)
  \/ \E f \in Flows : TimerFires(f)

PopupSpec == PopupInit /\ [][PopupNext]_vars

(***************************************************************************)
(* Properties                                                              *)
(***************************************************************************)
Responded(r) == responses[r] # <<>>
Response(r) == responses[r][1]
Invoked(r, name) == \E i \in 1..Len(trace[r]) : trace[r][i] = name
Count(r, name) == Cardinality({i \in 1..Len(trace[r]) : trace[r][i] = name})
OwnsNoFile(r) == \A p \in Paths : fs[p].owner # r
OwnsNoSnippet(r) == \A p \in Paths : p.kind = "snippet" => fs[p].owner # r

\* C1: a request whose title is missing or empty is answered 400 with the
\* validation message; the run makes no external call (no search, transcript
\* fetch, download, trim, transcription, summarization, audit) and creates
\* no temp file.
MissingTitleRejected ==
  \A r \in Runs :
    pc[r] # "idle" /\ req[r].title \in {Undefined, Null, Str(<<>>)} =>
      /\ pc[r] = "done"
      /\ responses[r] = <<Fail(400, <<"Title is required">>)>>
      /\ trace[r] = <<"respond">>
      /\ audit[r] = "none"
      /\ made[r] = {}
      /\ OwnsNoFile(r)

MissingTitleSeen ==
  \E r1, r2 \in Runs :
    /\ pc[r1] = "done" /\ req[r1].title = Undefined
    /\ pc[r2] = "done" /\ req[r2].title = Str(<<>>)
    /\ Response(r1).status = 400 /\ Response(r2).status = 400

\* C2: once a run has finished, whatever its outcome, no file that this run
\* created (full-length download or snippet) exists in the temp directory.
NoTempFileLeft ==
  \A r \in Runs : pc[r] = "done" => OwnsNoFile(r)

\* the temp paths a run in flight has named and not yet given up
RunPaths(r) ==
  IF stamp[r] # NoStamp
  THEN {fullAudioPath(stamp[r]), snippetPath(stamp[r])}
  ELSE IF Truthy(audioPath[r]) THEN {audioPath[r]} ELSE {}

\* a step changes an existing file only if it is a step of the run that
\* created the file
OnlyOwnerTouches ==
  \A p \in Paths :
    fs[p] # NoFile /\ fs'[p] # fs[p] => pc'[fs[p].owner] # pc[fs[p].owner]

\* C3: the temp paths of concurrent runs are pairwise distinct (also when
\* two runs read the clock in the same millisecond), so no run deletes or
\* overwrites a file another run in flight created.
TempPathsDistinct ==
  /\ [](\A r1, r2 \in Runs : r1 # r2 => RunPaths(r1) \cap RunPaths(r2) = {})
  /\ [][OnlyOwnerTouches]_vars

\* C4: when the episode's embedded transcript yields a non-empty segment,
\* extractAudioSnippet and transcribeWithWhisper are never invoked and the
\* run creates no temp file.
EmbeddedSegmentSkipsAudio ==
  \A r \in Runs :
    segment[r].tag = "string" /\ Len(segment[r].chars) > 0 =>
      /\ ~Invoked(r, "extractAudioSnippet")
      /\ ~Invoked(r, "curl")
      /\ ~Invoked(r, "transcribeWithWhisper")
      /\ audioPath[r] = Null
      /\ made[r] = {}
      /\ OwnsNoFile(r)

EmbeddedSegmentUsed ==
  \E r \in Runs :
    /\ pc[r] = "done"
    /\ episode[r].tag = "episode" /\ episode[r].hasTranscript
    /\ Truthy(episode[r].audioUrl)
    /\ segment[r] = Str(<<"a">>)
    /\ Response(r).status = 200
    /\ Response(r).body.data.transcript = Str(<<"a">>)

\* C5: when the search has no candidates the answer is 200, success, with
\* data.manualMode true and neither transcript nor summary; and manualMode
\* is true only when no episode was found.
ManualModeIffNotFound ==
  \A r \in Runs :
    Responded(r) =>
      /\ episode[r] = Null =>
           /\ Response(r).status = 200
           /\ Response(r).body.success
           /\ Response(r).body.data.manualMode = True
           /\ Response(r).body.data.transcript = Null
           /\ Response(r).body.data.summary = Null
      /\ (Response(r).status = 200
            /\ Response(r).body.data.manualMode = True) => episode[r] = Null

ManualModeSeen ==
  \E r1, r2 \in Runs :
    /\ episode[r1] = Null /\ Responded(r1)
    /\ Response(r1).body.data.manualMode = True
    /\ episode[r2].tag = "episode" /\ Responded(r2)
    /\ Response(r2).status = 200

\* a segment with something in it after trimming
Usable(seg) == seg.tag = "string" /\ Len(trim(seg.chars)) > 0

NoAudioAnswer(r) ==
  /\ Response(r).status = 404
  /\ ~Response(r).body.success
  /\ ~Invoked(r, "extractAudioSnippet")
  /\ ~Invoked(r, "transcribeWithWhisper")
  /\ ~Invoked(r, "summarizeTranscript")

\* C6 as claimed: a match without a usable embedded transcript and without
\* audioUrl is answered 404, success false, and neither the audio fetcher,
\* the transcriber nor the summarizer is invoked.
NoUsableTranscriptNoAudioIs404 ==
  \A r \in Runs :
    (/\ Responded(r)
     /\ episode[r].tag = "episode"
     /\ ~Truthy(episode[r].audioUrl)
     /\ ~Usable(segment[r])) => NoAudioAnswer(r)

\* C6 as amended: a match without audioUrl whose embedded transcript is
\* absent or gives a null or empty-string segment is answered 404, success
\* false, without audio fetcher, transcriber or summarizer; a segment of
\* whitespace only is taken as a transcript and answered 500.
NoTranscriptNoAudioIs404 ==
  \A r \in Runs :
    (/\ Responded(r)
     /\ episode[r].tag = "episode"
     /\ ~Truthy(episode[r].audioUrl)) =>
       /\ ~Truthy(segment[r]) => NoAudioAnswer(r)
       /\ (Truthy(segment[r]) /\ ~Usable(segment[r])) =>
            /\ Response(r).status = 500
            /\ ~Invoked(r, "extractAudioSnippet")
            /\ ~Invoked(r, "summarizeTranscript")

NoAudioSeen ==
  \E r1, r2 \in Runs :
    /\ episode[r1].tag = "episode" /\ ~Truthy(episode[r1].audioUrl)
    /\ segment[r1] = Str(<<>>)
    /\ Responded(r1) /\ Response(r1).status = 404
    /\ episode[r2].tag = "episode" /\ ~Truthy(episode[r2].audioUrl)
    /\ segment[r2] = Undefined
    /\ Responded(r2) /\ Response(r2).status = 404

\* C7: when the download exits successfully and the size check finds the
\* file under 10000 bytes, extractAudioSnippet fails with an audio-extraction
\* error, the trim is never invoked, and the undersized file is gone when
\* the error reaches the caller.
UndersizedDownloadRejected ==
  \A r \in Runs :
    downloadStats[r] # NoFile /\ downloadStats[r].size < 10000 =>
      /\ ~Invoked(r, "ffmpeg")
      /\ pc[r] \in {"cleanupFull", "cleanupSnippet", "done"}
      /\ pc[r] # "done" => err[r] = "Downloaded file too small"
      /\ pc[r] = "done" =>
           /\ responses[r] =
                <<Fail(500, <<"Failed to extract audio snippet: ",
                              "Downloaded file too small">>)>>
           /\ \A p \in Paths : fs[p] # downloadStats[r]

UndersizedDownloadSeen ==
  \E r \in Runs :
    /\ downloadStats[r] = File(r, 9999)
    /\ pc[r] = "done"
    /\ Response(r).status = 500

\* C8: the snippet a run created is deleted before the HTTP response of that
\* run is sent, on success and on failure.
SnippetDeletedBeforeResponse ==
  \A r \in Runs :
    Responded(r) /\ "snippet" \in made[r] => OwnsNoSnippet(r)

\* C9 as claimed: every run that passes validation emits exactly one audit
\* record, whatever its outcome.
OneAuditPerRun ==
  \A r \in Runs :
    pc[r] = "done" /\ Truthy(req[r].title) => Count(r, "logToSupabase") = 1

\* C9 as amended: a run emits at most one audit record; a finished run that
\* passed validation has emitted exactly one if it answered 200 (success or
\* not found) and none if it answered 404 or 500.
OneAuditPerAnsweredInsight ==
  \A r \in Runs :
    /\ Count(r, "logToSupabase") <= 1
    /\ pc[r] = "done" /\ Truthy(req[r].title) =>
         Count(r, "logToSupabase") =
           (IF Response(r).status = 200 THEN 1 ELSE 0)

AuditedAndUnauditedSeen ==
  \E r1, r2 \in Runs :
    /\ pc[r1] = "done" /\ Response(r1).status = 200
    /\ episode[r1].tag = "episode" /\ Count(r1, "logToSupabase") = 1
    /\ pc[r2] = "done" /\ Response(r2).status = 500
    /\ Truthy(req[r2].title) /\ Count(r2, "logToSupabase") = 0

\* C10: the response of a run is the same whether its audit call succeeds,
\* returns an error, throws or never completes: once logToSupabase has been
\* called the one response of the run is already sent, it is the 200 answer,
\* and no outcome of the audit call changes it.
AuditNeverAltersOutcome ==
  \A r \in Runs :
    audit[r] # "none" =>
      /\ Len(responses[r]) = 1
      /\ Response(r).status = 200
      /\ Response(r).body.success
      /\ Response(r) =
           (IF episode[r] = Null
            THEN ManualResponse(req[r], tsSeconds[r])
            ELSE SuccessResponse(req[r], episode[r],
                                 Response(r).body.data.transcript,
                                 Response(r).body.data.summary, tsSeconds[r]))

AuditOutcomesSeen ==
  \E r1, r2 \in Runs :
    /\ audit[r1] = "threw" /\ pc[r1] = "done" /\ Response(r1).status = 200
    /\ audit[r2] = "pending" /\ pc[r2] = "done" /\ Response(r2).status = 200

(***************************************************************************)
(* Properties of the helpers (under PureSpec)                              *)
(***************************************************************************)
Applied(fn) == call.fn = fn /\ call.times >= 1

\* the texts of the chosen segments, in order, joined by single spaces
TextsOf(chosen) ==
  Str(join([k \in 1..Len(chosen) |-> <<Letter(chosen[k])>>], <<" ">>))

\* the maximal runs of non-whitespace characters of s, in order
WhitespaceTokens(s) ==
  LET starts == {i \in 1..Len(s) :
                   ~IsWhitespace(s[i]) /\ (i = 1 \/ IsWhitespace(s[i - 1]))}
      ends == {i \in 1..Len(s) :
                 ~IsWhitespace(s[i]) /\ (i = Len(s) \/ IsWhitespace(s[i + 1]))}
      nth(set, k) == CHOOSE i \in set : Cardinality({j \in set : j < i}) = k - 1
  IN [k \in 1..Cardinality(starts) |->
        SubSeq(s, nth(starts, k), nth(ends, k))]

ContiguousIn(small, big) ==
  \E k \in 0..(Len(big) - Len(small)) :
    SubSeq(big, k + 1, k + Len(small)) = small

\* C11: for a segment-list transcript, extractTranscriptSegment(payload, t, w)
\* returns the texts of exactly the segments whose interval [start, end)
\* overlaps the window [t - 5, t + w + 5], in order, joined by spaces; a long
\* segment that reaches outside the window but overlaps it is included.
OverlappingSegmentsReturned ==
  Applied("extractTranscriptSegment") /\ call.arg.kind = "segments" =>
    LET a == call.arg
        overlaps(i) == /\ a.spans[i][1] <= a.t + a.w + 5
                       /\ a.spans[i][2] > a.t - 5
    IN call.out = TextsOf(SelectSeq([i \in 1..Len(a.spans) |-> i], overlaps))

\* C12: a segment lying entirely inside [t - 5, t + w + 5] is part of the
\* output, and a segment that starts after t + w + 5 is not.
SegmentInsideWindowReturned ==
  Applied("extractTranscriptSegment") /\ call.arg.kind = "segments" =>
    LET a == call.arg
    IN \A i \in 1..Len(a.spans) :
         /\ a.spans[i][1] >= a.t - 5 /\ a.spans[i][2] <= a.t + a.w + 5
              => includes(call.out.chars, <<Letter(i)>>)
         /\ a.spans[i][1] > a.t + a.w + 5
              => ~includes(call.out.chars, <<Letter(i)>>)

SegmentInsideWindowSeen ==
  /\ Applied("extractTranscriptSegment")
  /\ call.arg.kind = "segments"
  /\ call.arg.spans = << <<10, 15>>, <<50, 55>> >>
  /\ call.arg.t = 12 /\ call.arg.w = 30
  /\ call.out = Str(<<"a">>)

\* C13: for a flat transcript of n tokens and t >= 0 the result is the tokens
\* with indices max(0, wordIndex - 25) up to, excluding, min(n, wordIndex +
\* 75), joined by single spaces, where wordIndex = floor(t / 60 * 150); it is
\* the empty string when wordIndex - 25 >= n.
FlatWindowByWordIndex ==
  Applied("extractTranscriptSegment") /\ call.arg.kind = "words"
    /\ call.arg.t >= 0 =>
    LET n == call.arg.n
        wordIndex == (5 * call.arg.t) \div 2
        from == Max(0, wordIndex - 25)
        to == Min(n, wordIndex + 75)
    IN /\ call.out = Str(join(SubSeq(Words(n), from + 1, to), <<" ">>))
       /\ wordIndex - 25 >= n => call.out = Str(<<>>)

\* C14: for every flat transcript (tabs, newlines and runs of spaces
\* included) and every timestamp, the whitespace-delimited tokens of the
\* output are a contiguous subsequence of those of the input, and calling
\* again with the same arguments gives the same output.
FlatOutputContiguous ==
  Applied("extractTranscriptSegment")
    /\ call.arg.kind \in {"words", "chars"} =>
    ContiguousIn(WhitespaceTokens(call.out.chars),
                 WhitespaceTokens(payloadOf(call.arg).chars))

FlatOutputContiguousAndRepeatable ==
  /\ []FlatOutputContiguous
  /\ [][Applied("extractTranscriptSegment")
          /\ call.arg.kind \in {"words", "chars"}
          /\ call'.times = call.times + 1
          => call'.out = call.out]_vars

FlatOutputCutSeen ==
  /\ call.fn = "extractTranscriptSegment"
  /\ call.times = 2
  /\ call.arg.kind = "chars"
  /\ call.arg.chars = <<"a", " ", " ", "b">>
  /\ call.arg.t = 11
  /\ call.out = Str(<<"b">>)

\* the bullet markers the parsing contract names: '-', the bullet U+2022, '*'
ContractMarks == {"-", "U+2022", "*"}

LeadingDigits(s) ==
  CHOOSE k \in 0..Len(s) :
    /\ \A i \in 1..k : s[i] \in Digits
    /\ k = Len(s) \/ s[k + 1] \notin Digits

\* length of the marker at the start of s (0 when there is none): a bullet
\* mark, or digits and a dot, followed by whitespace or the end of the line
MarkerLength(s) ==
  LET d == LeadingDigits(s)
      ends(m) == Len(s) = m \/ IsWhitespace(s[m + 1])
  IN IF s # <<>> /\ s[1] \in ContractMarks /\ ends(1) THEN 1
     ELSE IF d >= 1 /\ Len(s) >= d + 1 /\ s[d + 1] = "." /\ ends(d + 1)
     THEN d + 1
     ELSE 0

HasMarker(line) == MarkerLength(trimStart(line)) > 0

\* the line without its leading whitespace and whole marker, trimmed
WithoutMarker(line) ==
  LET s == trimStart(line)
  IN trim(SubSeq(s, MarkerLength(s) + 1, Len(s)))

StartsWithDash(line) == Len(line) >= 2 /\ line[1] = "-" /\ line[2] = " "

\* C15 (as stated): an answer of exactly three lines, each starting with
\* '- ', gives exactly three bullets: the lines without the marker, trimmed,
\* in order.
ThreeDashLinesGiveThreeBullets ==
  Applied("summarizeTranscript") /\ Len(call.arg.lines) = 3
    /\ (\A i \in 1..3 : StartsWithDash(call.arg.lines[i])) =>
    call.out = Arr([i \in 1..3 |->
                      trim(SubSeq(call.arg.lines[i], 3,
                                  Len(call.arg.lines[i])))])

\* C15 (amended): an answer of exactly three lines, each starting with '- '
\* followed by text that is not blank, gives exactly three bullets: the lines
\* without the marker, trimmed, in order; a line that is blank after its
\* marker gives no bullet, and when all three are blank the result is the
\* whole answer, trimmed, as the only bullet.
ThreeDashLinesWithTextGiveThreeBullets ==
  Applied("summarizeTranscript") /\ Len(call.arg.lines) = 3
    /\ (\A i \in 1..3 : StartsWithDash(call.arg.lines[i])) =>
    LET text(i) == trim(SubSeq(call.arg.lines[i], 3, Len(call.arg.lines[i])))
        withText == SelectSeq(<<1, 2, 3>>, LAMBDA i : text(i) # <<>>)
    IN /\ (Len(withText) = 3 => call.out = Arr([i \in 1..3 |-> text(i)]))
       /\ (Len(withText) \in 1..2 =>
             call.out = Arr([k \in 1..Len(withText) |-> text(withText[k])]))
       /\ (Len(withText) = 0 =>
             call.out = Arr(<<trim(contentOf(call.arg))>>))

ThreeDashLinesSeen ==
  /\ Applied("summarizeTranscript")
  /\ call.arg.lines = <<<<"-", " ", "a">>, <<"-", " ", "b", "\r">>,
                       <<"-", " ", "a">>>>
  /\ call.out = Arr(<<<<"a">>, <<"b">>, <<"a">>>>)

\* C16: when no line of the answer carries a bullet marker ('-', the bullet
\* U+2022, '*') or a numbered marker, or every line that carries one is
\* empty once the marker is stripped, the result is the single-element list
\* holding the whole answer, trimmed.
UnmarkedAnswerReturnedWhole ==
  Applied("summarizeTranscript")
    /\ (\A i \in 1..Len(call.arg.lines) :
          HasMarker(call.arg.lines[i]) =>
            WithoutMarker(call.arg.lines[i]) = <<>>) =>
    call.out = Arr(<<trim(contentOf(call.arg))>>)

\* C17: every line the parser keeps gives the bullet that is the line without
\* its whole marker, trimmed: for '-', the bullet and '*', for numbered
\* markers of one or more digits ('1. X' and '10. X' give 'X') and for a
\* marker after leading whitespace ('  - X' gives 'X').
KeptLineLosesWholeMarker ==
  Applied("summarizeTranscript") =>
    LET kept == SelectSeq(call.arg.lines, isMarked)
    IN \A k \in 1..Min(Len(kept), 3) :
         call.out.items[k] = WithoutMarker(kept[k])

\* C18: the result is a list of one to three strings; when more than three
\* lines are marked it is the first three surviving ones, in order.
OneToThreeBullets ==
  Applied("summarizeTranscript") =>
    LET marked == SelectSeq(call.arg.lines, isMarked)
        stripped == [i \in 1..Len(marked) |-> stripMarker(marked[i])]
        surviving == SelectSeq(stripped, nonEmpty)
    IN /\ Len(call.out.items) \in 1..3
       /\ \A k \in 1..Len(call.out.items) :
            call.out.items[k] \in Seq(STRING)
       /\ Len(marked) > 3 => call.out.items = SubSeq(surviving, 1, 3)

FourMarkedLinesSeen ==
  /\ Applied("summarizeTranscript")
  /\ call.arg.lines = <<<<"-", " ", "a">>, <<"*", " ", "c">>,
                        <<"1", ".", " ", "d">>, <<"-", " ", "b", "\r">>>>
  /\ call.out = Arr(<<<<"a">>, <<"c">>, <<".", " ", "d">>>>)

\* C19: every success response reports the title the caller sent as
\* data.episodeTitle and, when the caller sent a show name, that show name as
\* data.showName; the show resolved by the search service is reported only
\* when the caller sent none.
CallerTitleAndShowReported ==
  Applied("respond") =>
    LET a == call.arg
        data == call.out.body.data
    IN /\ call.out.status = 200
       /\ data.episodeTitle = a.body.title
       /\ Truthy(a.body.showName) => data.showName = a.body.showName
       /\ ~Truthy(a.body.showName) => data.showName = a.episode.showName

\* C20: searchListenNotes sends one request to the search service per call;
\* with no results it returns null and does not throw; with results and a
\* non-empty showName it returns the first candidate whose lower-cased show
\* name contains, or is contained in, the lower-cased showName, and the first
\* result when none matches or showName is empty.
SearchPicksMatchingShow ==
  call.fn = "searchListenNotes" =>
    /\ call.requests = call.times + (IF call.pending THEN 1 ELSE 0)
    /\ call.times >= 1 /\ call.arg.results # Failure =>
         IF call.arg.results = Undefined \/ call.arg.results.items = <<>>
         THEN call.out = Null
         ELSE LET rs == call.arg.results.items
                  ref == toLowerCase(call.arg.showName.chars)
                  name(i) == IF rs[i].podcastTitle = Undefined THEN <<>>
                             ELSE toLowerCase(rs[i].podcastTitle.chars)
                  match(i) == includes(name(i), ref) \/ includes(ref, name(i))
                  pick == IF ref # <<>> /\ \E i \in 1..Len(rs) : match(i)
                          THEN CHOOSE i \in 1..Len(rs) :
                                 match(i) /\ \A j \in 1..(i - 1) : ~match(j)
                          ELSE 1
              IN /\ call.out.tag = "episode"
                 /\ call.out.id = rs[pick].id
                 /\ call.out.title = rs[pick].title_original
                 /\ call.out.audioUrl = rs[pick].audio

LaterCandidateMatchedSeen ==
  /\ Applied("searchListenNotes")
  /\ call.times = 2 /\ call.requests = 2
  /\ call.arg.results = Arr(<<withTranscript, transcriptOnly>>)
  /\ call.arg.showName = Str(<<"A", "b">>)
  /\ call.out.id = "eO"

(***************************************************************************)
(* Properties of the pipeline's failure handling and ordering              *)
(***************************************************************************)
\* the calls that start a pipeline stage
StageCalls ==
  {"searchListenNotes", "getEpisodeTranscript", "extractAudioSnippet", "curl",
   "ffmpeg", "transcribeWithWhisper", "whisperPost", "summarizeTranscript"}

\* position of the first occurrence of an event in the run's trace
Pos(r, name) ==
  CHOOSE i \in 1..Len(trace[r]) :
    trace[r][i] = name /\ \A j \in 1..(i - 1) : trace[r][j] # name

Before(r, a, b) == Invoked(r, a) /\ Invoked(r, b) /\ Pos(r, a) < Pos(r, b)

Blank(t) == t.tag = "string" /\ trim(t.chars) = <<>>

EmptyTranscriptResponse ==
  Fail(500, <<"Failed to get transcript for this segment">>)

\* C21: once a stage has failed (search, download, trim, a size check,
\* transcription, summarization) the run starts no further stage, and it
\* answers 500 with {success: false, message}.
FirstFailureIsTerminal ==
  \A r \in Runs :
    Invoked(r, "failed") =>
      /\ \A j \in (Pos(r, "failed") + 1)..Len(trace[r]) :
           trace[r][j] = "respond"
      /\ pc[r] \in {"cleanupFull", "cleanupSnippet", "finally", "done"}
      /\ pc[r] \in {"finally", "done"} =>
           /\ Len(responses[r]) = 1
           /\ Response(r).status = 500
           /\ Response(r).body.success = FALSE
           /\ Response(r).body.message # <<>>

FailureAfterTrimSeen ==
  \E r \in Runs :
    /\ pc[r] = "done"
    /\ trace[r] = <<"searchListenNotes", "extractAudioSnippet", "curl",
                    "ffmpeg", "failed", "respond">>
    /\ Response(r).status = 500

\* C22: within one run each external stage (search, transcript fetch,
\* download, trim, transcription, summarization) is invoked at most once;
\* nothing is retried after a failure.
OneInvocationPerStage ==
  \A r \in Runs : \A name \in StageCalls : Count(r, name) <= 1

FailedDownloadNotRetriedSeen ==
  \E r \in Runs :
    /\ pc[r] = "done"
    /\ trace[r] = <<"searchListenNotes", "extractAudioSnippet", "curl",
                    "failed", "respond">>

\* C23: summarizeTranscript is only invoked with a transcript that is not
\* empty after trimming; a run whose transcript (the embedded segment it
\* uses, or the transcription) is null, empty or whitespace-only answers 500
\* without invoking it.
SummarizerNeverGivenBlank ==
  \A r \in Runs :
    /\ pc[r] = "summarize" =>
         Truthy(transcript[r]) /\ trim(transcript[r].chars) # <<>>
    /\ Truthy(segment[r]) /\ Blank(segment[r]) =>
         /\ pc[r] = "done"
         /\ responses[r] = <<EmptyTranscriptResponse>>
         /\ ~Invoked(r, "summarizeTranscript")
    /\ pc[r] = "finally" /\ ~Invoked(r, "failed") /\ Blank(transcript[r]) =>
         /\ responses[r] = <<EmptyTranscriptResponse>>
         /\ ~Invoked(r, "summarizeTranscript")

BlankTranscriptsSeen ==
  \E r1, r2 \in Runs :
    /\ pc[r1] = "done" /\ segment[r1] = Str(<<" ">>)
    /\ pc[r2] = "finally" /\ transcript[r2] \in {Str(<<>>), Str(<<"\r", "\n">>)}
    /\ Invoked(r2, "whisperPost") /\ ~Invoked(r2, "failed")

\* C24: when the search call fails the run answers 500 and stops there: no
\* temp file is created and no transcript fetch, download, trim,
\* transcription or summarization is invoked.
SearchFailureAbortsEarly ==
  \A r \in Runs :
    Len(trace[r]) >= 2 /\ trace[r][1] = "searchListenNotes"
      /\ trace[r][2] = "failed" =>
      /\ pc[r] = "done"
      /\ responses[r] =
           <<Fail(500, <<"Failed to search for podcast episode">>)>>
      /\ trace[r] = <<"searchListenNotes", "failed", "respond">>
      /\ made[r] = {}
      /\ OwnsNoFile(r)
      /\ audit[r] = "none"

SearchFailureSeen ==
  \E r1, r2 \in Runs :
    /\ trace[r1] = <<"searchListenNotes", "failed", "respond">>
    /\ ~OwnsNoFile(r2)

\* C25: every external call is bounded by a timeout, so every run that has
\* started sends its response in the end, even when a service never answers.
EveryRunResponds == (pc[LiveRun] # "idle") ~> Responded(LiveRun)

\* C26: the stages of a run are sequential: trim starts only after the
\* download has completed and passed its size check, transcription only
\* after trim has completed and the snippet passed its size check,
\* summarization only after transcription or embedded segmentation.
StagesOrdered ==
  \A r \in Runs :
    /\ Invoked(r, "ffmpeg") =>
         /\ Before(r, "curl", "ffmpeg")
         /\ "full" \in made[r]
         /\ downloadStats[r].size >= MinDownloadSize
    /\ Invoked(r, "transcribeWithWhisper") =>
         /\ Before(r, "ffmpeg", "transcribeWithWhisper")
         /\ "snippet" \in made[r]
    /\ Invoked(r, "summarizeTranscript") =>
         \/ Before(r, "whisperPost", "summarizeTranscript")
         \/ Before(r, "getEpisodeTranscript", "summarizeTranscript")

StagesStartOnCompletion ==
  \A r \in Runs :
    /\ ~Invoked(r, "ffmpeg") /\ Invoked(r, "ffmpeg")' =>
         /\ pc[r] = "statFull"
         /\ fs[fullAudioPath(stamp[r])].size >= MinDownloadSize
    /\ ~Invoked(r, "transcribeWithWhisper")
         /\ Invoked(r, "transcribeWithWhisper")' =>
         /\ pc[r] = "statSnippet"
         /\ fs[snippetPath(stamp[r])].size >= MinSnippetSize
    /\ ~Invoked(r, "summarizeTranscript")
         /\ Invoked(r, "summarizeTranscript")' =>
         pc[r] \in {"getTranscript", "whisper"}

StagesSequential == []StagesOrdered /\ [][StagesStartOnCompletion]_vars

AllStagesInOrderSeen ==
  \E r \in Runs :
    trace[r] = <<"searchListenNotes", "extractAudioSnippet", "curl", "ffmpeg",
                 "transcribeWithWhisper", "whisperPost", "summarizeTranscript",
                 "logToSupabase", "respond">>

\* the run has a found episode and is past the embedded-transcript stage
PastEmbedded(r) ==
  /\ pc[r] \notin {"idle", "search", "getTranscript"}
  /\ Truthy(episode[r])

TookAudioPath(r) ==
  \/ Invoked(r, "extractAudioSnippet")
  \/ /\ ~Truthy(episode[r].audioUrl)
     /\ responses[r] =
          <<Fail(404, <<"No audio URL available for this episode">>)>>

\* C27 (as stated): for a found episode, when extractTranscriptSegment gives
\* no usable text (null, the empty string, or text that is empty after
\* trimming) or there is no embedded transcript, the run takes the audio
\* path instead of failing with the empty-transcript error.
UnusableSegmentTakesAudioPath ==
  \A r \in Runs :
    PastEmbedded(r)
      /\ (segment[r] \in {Undefined, Null} \/ Blank(segment[r])) =>
      TookAudioPath(r)

\* C27 (amended): for a found episode, when extractTranscriptSegment gives
\* null or the empty string, or there is no embedded transcript, the run
\* takes the audio path; a segment of whitespace only is not a missing one:
\* the run answers 500 (empty transcript) and never starts the audio path.
MissingSegmentTakesAudioPath ==
  \A r \in Runs :
    PastEmbedded(r) =>
      /\ segment[r] \in {Undefined, Null, Str(<<>>)} => TookAudioPath(r)
      /\ Truthy(segment[r]) /\ Blank(segment[r]) =>
           /\ responses[r] = <<EmptyTranscriptResponse>>
           /\ ~Invoked(r, "extractAudioSnippet")

MissingAndBlankSegmentSeen ==
  \E r1, r2 \in Runs :
    /\ segment[r1] = Null /\ Invoked(r1, "extractAudioSnippet")
    /\ segment[r2] = Str(<<" ">>) /\ pc[r2] = "done"

\* C28: when extractAudioSnippet returns, the snippet file exists with at
\* least 1000 bytes and the full-length download no longer exists; when it
\* throws, neither of the two files exists.
SnippetReturnLeavesOnlySnippet ==
  \A r \in Runs :
    /\ pc[r] = "statSnippet" /\ pc'[r] = "whisperStat" =>
         /\ fs'[snippetPath(stamp[r])].size >= MinSnippetSize
         /\ fs'[fullAudioPath(stamp[r])] = NoFile
    /\ pc[r] = "cleanupSnippet" /\ pc'[r] # "cleanupSnippet" =>
         /\ fs'[snippetPath(stamp[r])] = NoFile
         /\ fs'[fullAudioPath(stamp[r])] = NoFile

SnippetPostcondition == [][SnippetReturnLeavesOnlySnippet]_vars

\* C29: whatever the request's timestamp (absent, not a number, zero,
\* positive, negative), the timestampSeconds the run works with and echoes
\* in its response is an integer greater than or equal to 0.
TimestampNeverNegative ==
  \A r \in Runs :
    /\ tsSeconds[r] \in Nat
    /\ Responded(r) /\ Response(r).status = 200 =>
         Response(r).body.data.timestampSeconds \in Nat

\* C30: every request gets exactly one response on every path: a finished
\* run has sent one, and no run ever sends a second.
ExactlyOneResponse ==
  \A r \in Runs :
    /\ Len(responses[r]) <= 1
    /\ Count(r, "respond") = Len(responses[r])
    /\ pc[r] \in {"finally", "done"} => Len(responses[r]) = 1

EveryPathAnsweredSeen ==
  \E r1, r2 \in Runs :
    /\ pc[r1] = "done" /\ Response(r1).status = 404
    /\ pc[r2] = "done" /\ Response(r2).status = 200
    /\ Invoked(r2, "summarizeTranscript")

\* C31: a failed embedded-transcript request never fails the run by itself:
\* the run extracts no segment and goes on exactly as a run whose episode has
\* no embedded transcript does (audio extraction when the episode has an
\* audio URL, the 404 answer when it has none); no error is thrown to the
\* handler at that point.
FailedTranscriptFetchIsNoTranscript ==
  \A r \in Runs :
    Invoked(r, "transcriptFetchFailed") =>
      LET i == Pos(r, "transcriptFetchFailed")
          o == afterTranscript(episode[r], Null)
          next == o.calls \o [k \in 1..Len(o.resp) |-> "respond"]
      IN /\ segment[r] = Undefined
         /\ Len(trace[r]) >= i + Len(next)
         /\ SubSeq(trace[r], i + 1, i + Len(next)) = next
         /\ Len(o.resp) > 0 => responses[r] = o.resp
         /\ Count(r, "failed") > 0 => Invoked(r, "extractAudioSnippet")

FailedTranscriptFetchSeen ==
  \E r1, r2 \in Runs :
    /\ pc[r1] = "done" /\ Invoked(r1, "transcriptFetchFailed")
    /\ Invoked(r1, "transcribeWithWhisper") /\ Response(r1).status = 200
    /\ pc[r2] = "done" /\ Invoked(r2, "transcriptFetchFailed")
    /\ Response(r2).status = 404

\* C32: after any sequence of PROCESS_INSIGHT operations, several in flight
\* at once included, recentInsights holds at most 10 entries, newest first;
\* an insight is added in front, and when the list is full the entry that
\* goes is the last one, the oldest.
RecentInsightsNewestFirst ==
  LET list == worker.recentInsights
  IN /\ Len(list) <= MaxInsights
     /\ \A i, j \in 1..Len(list) :
          i < j => list[i].timestamp.iso >= list[j].timestamp.iso

OldestInsightEvicted ==
  LET old == worker.recentInsights
      new == worker'.recentInsights
  IN new # old /\ new # <<>> =>
       /\ Len(new) = Min(Len(old) + 1, MaxInsights)
       /\ SubSeq(new, 2, Len(new)) = SubSeq(old, 1, Len(new) - 1)
       /\ new[1].timestamp = toISOString(worker.date)
       /\ \E p \in Ports : /\ worker.port[p].pc = "json"
                           /\ worker'.port[p].pc = "done"
                           /\ new[1].title = worker.port[p].data.title

RecentInsightsBounded ==
  []RecentInsightsNewestFirst /\ [][OldestInsightEvicted]_vars

EleventhInsightSeen ==
  /\ Len(worker.recentInsights) = MaxInsights
  /\ worker.recentInsights[1].title = MaxInsights
  /\ worker.recentInsights[2].title = MaxInsights + 1
  /\ worker.recentInsights[MaxInsights].title = 2
  /\ worker.recentInsights[1].timestamp.iso > 0

\* C33: when handleProcessInsight fails (the request is rejected, the answer
\* is not OK, or its body cannot be read), recentInsights and the persisted
\* `insights` stay as they were and the caller gets the error.
FailedInsightChangesNothing ==
  \A p \in Ports :
    /\ worker.port[p].action \in {"PROCESS_INSIGHT", "save-insight"}
    /\ worker.port[p].pc \in {"fetch", "json", "errorJson"}
    /\ worker'.port[p].pc = "done"
    /\ worker'.port[p].error # ""
    => /\ worker'.recentInsights = worker.recentInsights
       /\ worker'.insights = worker.insights
       /\ IF worker.port[p].action = "PROCESS_INSIGHT"
          THEN worker'.port[p].sent =
                 <<[success |-> FALSE, error |-> worker'.port[p].error]>>
          ELSE worker'.port[p].notified =
                 <<[message |-> <<"Error: ", worker'.port[p].error>>]>>

FailedInsightLeavesLists == [][FailedInsightChangesNothing]_vars

FailedInsightsSeen ==
  \E p, q \in Ports :
    /\ worker.port[p].action = "PROCESS_INSIGHT"
    /\ worker.port[p].pc = "done"
    /\ worker.port[p].error = "Failed to fetch"
    /\ worker.port[q].action = "save-insight"
    /\ worker.port[q].pc = "done"
    /\ worker.port[q].error = "Title is required"
    /\ worker.port[q].notified # <<>>
    /\ Len(worker.recentInsights) = MaxInsights
    /\ worker.insights = worker.recentInsights

\* C34: after any sequence of extension events (install, successful or
\* failed PROCESS_INSIGHT, restart of the service worker), the list that
\* GET_RECENT_INSIGHTS returns equals the persisted `insights`, and a
\* successful PROCESS_INSIGHT removes no persisted insight other than the
\* one the 10-entry limit evicts.
RecentAnswerIsPersisted ==
  \A p \in Ports :
    /\ worker.port[p].pc # "done"
    /\ worker'.port[p].pc = "done"
    /\ worker'.port[p].action = "GET_RECENT_INSIGHTS"
    => worker'.port[p].sent[1].insights = worker'.insights

PersistedInsightsKept ==
  \A p \in Ports :
    /\ worker.port[p].action = "PROCESS_INSIGHT"
    /\ worker.port[p].pc = "json"
    /\ worker'.port[p].pc = "done"
    /\ worker'.port[p].sent[1].success
    => \A i \in 1..Len(worker.insights) :
         \/ \E j \in 1..Len(worker'.insights) :
              worker'.insights[j] = worker.insights[i]
         \/ i = MaxInsights

RecentInsightsMirrorStorage ==
  [][RecentAnswerIsPersisted /\ PersistedInsightsKept]_vars

\* C35: every PROCESS_INSIGHT and SAVE_TO_NOTION message is eventually
\* answered by exactly one sendResponse: the backend's result on success,
\* { success: false, error } on failure.
EveryMessageAnswered ==
  \A p \in Ports :
    (worker.port[p].pc = "fetch"
       /\ worker.port[p].action \in {"PROCESS_INSIGHT", "SAVE_TO_NOTION"}) ~>
      (worker.port[p].pc = "done" /\ Len(worker.port[p].sent) = 1)

InProgress(f) == popup.flow[f].pc \notin {"idle", "done"}

\* C36: clicks start handleSaveInsight only while the save button is
\* enabled; then at most one save flow is in flight at any time: from the
\* start of a flow until it shows success or error the button is disabled.
OneSaveFlowAtATime ==
  /\ Cardinality({f \in Flows : InProgress(f)}) <= 1
  /\ \A f \in Flows : InProgress(f) => popup.disabled

\* C37: neither a reset timer set by a finished flow nor the callback of the
\* initial getSpotifyData changes what a later flow in progress displays:
\* while a flow is in progress the popup never shows the default state.
NoDefaultStateDuringFlow ==
  \A f \in Flows : InProgress(f) => popup.shown # "default"

Has(f, event) ==
  \E i \in 1..Len(popup.flow[f].trace) : popup.flow[f].trace[i] = event

\* C38: in a save flow saveToNotion is called at most once and only after
\* processInsight has returned successfully; when getSpotifyData or
\* processInsight fails it is never called and the flow ends in the error
\* state; the success state is shown only after saveToNotion succeeded.
SaveOnlyAfterProcessing ==
  \A f \in Flows :
    LET t == popup.flow[f].trace
    IN /\ Cardinality({i \in 1..Len(t) : t[i] = "saveToNotion"}) <= 1
       /\ \A i \in 1..Len(t) :
            /\ t[i] = "saveToNotion" =>
                 i = 5 /\ SubSeq(t, 1, 4) = <<"getSpotifyData", "ok",
                                              "processInsight", "ok">>
            /\ t[i] = "failed" /\ t[i - 1] # "saveToNotion" =>
                 /\ ~Has(f, "saveToNotion")
                 /\ popup.flow[f].pc = "done"
                 /\ t[Len(t)] = "error"
            /\ t[i] = "success" =>
                 i = 7 /\ SubSeq(t, 5, 6) = <<"saveToNotion", "ok">>
       /\ popup.flow[f].pc = "done" =>
            t[Len(t)] \in {"success", "error"}

SavedAndFailedFlowsSeen ==
  /\ popup.flow["f1"].pc = "done" /\ Has("f1", "success")
  /\ popup.flow["f2"].pc = "done"
  /\ popup.flow["f2"].trace = <<"getSpotifyData", "ok", "processInsight",
                                "failed", "error">>

HasHeading(page, heading) ==
  \E i \in 1..Len(page.children) :
    /\ page.children[i].type = "heading_2"
    /\ page.children[i].heading = heading

NonEmptyText(v) == v.tag = "string" /\ v.chars # <<>>
NonEmptyList(v) == v.tag = "array" /\ v.items # <<>>

\* C39: a manual-mode result of /process-insight forwarded by the popup to
\* /save-to-notion with its title is never answered 400, and the page built
\* for it has the notes placeholder and no transcript block; for every
\* request, the page has a transcript block exactly when the request carries
\* a transcript (a non-empty text), the notes placeholder otherwise, and a
\* takeaways section exactly when it carries a non-empty summary.
ManualResultSavedAsNotes ==
  Applied("saveToNotion") =>
    LET a == call.arg
        built == call.out.status = 200
    IN /\ a.kind = "manual" =>
            /\ call.out.status # 400
            /\ a.databaseId /\ a.created.tag = "page" => built
            /\ built => /\ HasHeading(call.out.page, "Your Notes")
                        /\ ~HasHeading(call.out.page, "Transcript")
                        /\ ~HasHeading(call.out.page, "Key Takeaways")
       /\ built =>
            /\ HasHeading(call.out.page, "Transcript")
                 <=> NonEmptyText(a.body.transcript)
            /\ HasHeading(call.out.page, "Your Notes")
                 <=> ~NonEmptyText(a.body.transcript)
            /\ HasHeading(call.out.page, "Key Takeaways")
                 <=> \/ NonEmptyText(a.body.summary)
                     \/ NonEmptyList(a.body.summary)

ManualResultSavedSeen ==
  /\ Applied("saveToNotion")
  /\ call.arg.kind = "manual"
  /\ call.arg.body.title = Str(<<"T">>)
  /\ call.arg.body.transcript = Null
  /\ call.out.status = 200
  /\ call.out.page.manual
  /\ Len(call.out.page.children) = 3
  /\ call.out.page.children[2].content =
       "(Podcast not found in database - add your own notes here!)"

====
